---- MODULE Spec2Model ----
(***************************************************************************)
(* Job-application tracking backend: candidate registration, the status    *)
(* transition engine with its history ledger, and the notification         *)
(* dispatcher (backend/job_application).                                    *)
(*                                                                         *)
(* The committed database is candStatus / history / notifications.  Every  *)
(* request runs in a slot r; the writes it makes inside                     *)
(* `with transaction.atomic():` are kept in req[r].tx_* until the block     *)
(* exits, and are applied (commit) or dropped (rollback) by DbAfterExit.    *)
(*                                                                         *)
(* Spec is the workflow: registration and status transitions interleaved.  *)
(* SpecReg is registration alone with the form's fields, the serializer's  *)
(* validators, Candidate.full_clean() and the unique indexes.  SpecFile is  *)
(* one uploaded file: validate_resume_file applied to it, and the file     *)
(* taken through the serializer's resume field.  SpecAuth is the           *)
(* workflow with status updates arriving with and without the X-ADMIN      *)
(* header.  SpecFail is each view answering an exception.  SpecES and      *)
(* SpecESFair are the threads of main/logging_handlers.py's                *)
(* ElasticsearchHandler: emitters, the flush timer, and flush()/close().   *)
(* SpecSeed is the workflow on a database that the management command      *)
(* populate_candidates fills and clears.  SpecSafety is                     *)
(* validate_file_content_safety applied to one uploaded file.              *)
(***************************************************************************)
EXTENDS Integers, Sequences, FiniteSets, TLC

\* ---------------------------------------------------------------- bounds
MaxCand == 2        \* candidate ids handed out by the auto-increment key
NumReq == 2         \* requests that can be in flight at the same time
MaxRequests == 3    \* requests started in one behaviour

Cands == 1..MaxCand
Reqs == 1..NumReq

\* ------------------------------------------------------------- constants
\* models.py ApplicationStatus
Statuses == {"SUBMITTED", "UNDER_REVIEW", "INTERVIEW_SCHEDULED", "REJECTED", "ACCEPTED"}

\* a value that is not a member of ApplicationStatus.choices
BogusStatus == "BOGUS"

\* values a PATCH body can carry in its status field
ReqStatusValues == Statuses \cup {BogusStatus}

\* a field the request body does not carry
Absent == "<absent>"

\* bodies of PATCH requests: every status value without the optional fields,
\* and one body that carries comments and changed_by
PatchBodies ==
    { [status |-> s, comments |-> Absent, changed_by |-> Absent] : s \in ReqStatusValues }
    \cup { [status |-> "UNDER_REVIEW", comments |-> "looks good", changed_by |-> "recruiter1"] }

\* status column of a row that does not exist
NoCand == "<none>"

\* previous_status=None
Null == "<null>"

\* outcomes of a NotificationLog.objects.create call: the INSERT works or
\* it raises a database error. The model has no save(), clean() or signal
\* receiver of its own, so nothing raises before the INSERT.
CreateOutcomes == {"ok", "dberror"}

VARIABLES
    candStatus,     \* Candidate table: id -> status, NoCand when no such row
    history,        \* StatusHistory rows of each candidate, oldest first
    notifications,  \* NotificationLog rows of each candidate, oldest first
    nextId,         \* next value of the Candidate auto-increment key
    pc,             \* position of each request slot in its handler
    req,            \* the request of each slot: inputs, snapshot, open transaction, response
    nSuccess,       \* per candidate: PATCH requests answered with success=True
    started,        \* requests started so far
    candData,       \* Candidate table: id -> personal columns, NoData when no such row
    regIn,          \* the registration form each slot is working on
    upload,         \* the UploadedFile handed to validate_resume_file
    fpos,           \* stream position of that file
    fres,           \* what validate_resume_file did with it
    failure,        \* the exception a view runs into: operation, class, text
    answer,         \* what the view answered and what it logged
    es,             \* ElasticsearchHandler.es is set (the ping succeeded)
    buffer,         \* ElasticsearchHandler.buffer: the records waiting to be sent
    lock_holder,    \* the thread that holds ElasticsearchHandler._lock, or NoThread
    timers,         \* every threading.Timer created so far and its state
    timer_ref,      \* ElasticsearchHandler._timer: index of a timer, 0 for None
    tpc,            \* position of each thread in the handler's code
    tlocal,         \* locals of each thread: the record, its urgency, where flush() returns to
    attempted,      \* records that were part of a helpers.bulk call
    dropped,        \* records removed from the buffer that were never part of one
    closed,         \* close() has returned
    nextRec,        \* records emitted so far, plus one
    clearing        \* populate_candidates --clear: the rows its delete() collected

\* the state of the resume file validator
fileVars == <<upload, fpos, fres>>

\* the personal data of candidates and the forms being registered
regVars == <<candData, regIn>>

\* the failing operation and its response
failVars == <<failure, answer>>

\* the Elasticsearch log handler and the threads that use it
esVars == <<es, buffer, lock_holder, timers, timer_ref, tpc, tlocal, attempted,
            dropped, closed, nextRec>>

\* the seeding command
seedVars == <<clearing>>

vars == <<candStatus, history, notifications, nextId, pc, req, nSuccess, started,
          candData, regIn, upload, fpos, fres, failure, answer,
          es, buffer, lock_holder, timers, timer_ref, tpc, tlocal, attempted,
          dropped, closed, nextRec, clearing>>

\* ------------------------------------------------------------ request record
IdleReq ==
    [ kind |-> "none", cand |-> 0, status |-> Absent,
      admin_header |-> Absent,  \* request.META.get('HTTP_X_ADMIN')
      comments |-> Absent, changed_by |-> Absent,
      prev |-> NoCand,          \* candidate.status of the instance loaded by the view
      tx_status |-> NoCand,     \* status written by candidate.save() in the open transaction
      tx_hist |-> <<>>,         \* StatusHistory rows inserted in the open transaction
      tx_notif |-> <<>>,        \* NotificationLog rows inserted in the open transaction
      doomed |-> FALSE,         \* connection.needs_rollback of the open transaction
      sent |-> "none",          \* _mock_send_notification: "none" not called, "ok", "raised"
      attempts |-> 0,           \* calls of _mock_send_notification
      ret |-> "none",           \* send_status_update_notification: "true", "false", "raise"
      code |-> 0,               \* HTTP status of the response
      err |-> "none" ]          \* what was rejected, or the exception logged server-side

\* positions at which a request is inside the atomic block of the status view
PatchInTx == {"saved", "historied", "notified"}

\* the request holding the row lock that UPDATE takes on candidate c
LockHeld(c) == \E r \in Reqs : pc[r] \in PatchInTx /\ req[r].cand = c

\* --------------------------------------------------------------- serializers
\* a faulty check that accepts every value
validate_status_accept_all(candidate_status, value) == TRUE

\* mutated: a decided application cannot be moved back to SUBMITTED
validate_status_no_reopen(candidate_status, value) ==
    /\ ~(candidate_status # NoCand /\ candidate_status = value)
    /\ ~(candidate_status \in {"ACCEPTED", "REJECTED"} /\ value = "SUBMITTED")

\* StatusUpdateSerializer.validate_status: TRUE when the value is accepted
validate_status(candidate_status, value) ==
    ~(candidate_status # NoCand /\ candidate_status = value)

\* validated_data.get(key, default) / the serializer field default
GetDefault(v, d) == IF v = Absent THEN d ELSE v

\* a history constructor that records the statuses the wrong way round
StatusHistoryRow_swapped(previous_status, new_status, comments, changed_by) ==
    [ previous_status |-> new_status, new_status |-> previous_status,
      comments |-> comments, changed_by |-> changed_by ]

\* mutated: the transition row is written without its previous status
StatusHistoryRow_null_previous(previous_status, new_status, comments, changed_by) ==
    [ previous_status |-> Null, new_status |-> new_status,
      comments |-> comments, changed_by |-> changed_by ]

\* StatusHistory.objects.create(...) in update_status
StatusHistoryRow(previous_status, new_status, comments, changed_by) ==
    [ previous_status |-> previous_status, new_status |-> new_status,
      comments |-> comments, changed_by |-> changed_by ]

\* an initial row attributed to the default actor
InitialHistoryRow_admin ==
    [ previous_status |-> Null, new_status |-> "SUBMITTED",
      comments |-> "Initial application submitted", changed_by |-> "admin" ]

\* StatusHistory.objects.create(...) in CandidateRegistrationSerializer.create
InitialHistoryRow ==
    [ previous_status |-> Null, new_status |-> "SUBMITTED",
      comments |-> "Initial application submitted", changed_by |-> "system" ]

\* ---------------------------------------------------------------- dispatcher
\* a log row that leaves the error message out
NotificationLogRow_blank(status_change, success, error_message) ==
    [ status_change |-> status_change, notification_type |-> "status_update",
      success |-> success, error_message |-> "" ]

\* NotificationLog.objects.create(...) of the dispatcher
NotificationLogRow(status_change, success, error_message) ==
    [ status_change |-> status_change, notification_type |-> "status_update",
      success |-> success, error_message |-> error_message ]

\* where the try block of the dispatcher fails before it writes its row:
\* nowhere, in _generate_status_message, or in _mock_send_notification
SendFaults == {"none", "compose", "send"}

\* str(e) of the exception the handler of the dispatcher catches, told
\* apart by where it was raised: on the send path (composition or send) or
\* in the write of the success row
dispatcher_error_msg(fault) ==
    IF fault # "none" THEN "send failed" ELSE "log write failed"

\* a dispatcher that tries the send a second time when the first one raises
send_status_update_notification_retry(status_change, fault, create1, create2) ==
    [ ret |-> IF fault # "none" THEN "false" ELSE "true",
      rows |-> IF fault # "none"
               THEN << NotificationLogRow(status_change, FALSE, dispatcher_error_msg(fault)),
                       NotificationLogRow(status_change, FALSE, dispatcher_error_msg(fault)) >>
               ELSE << NotificationLogRow(status_change, TRUE, "") >>,
      doomed |-> FALSE,
      sent |-> IF fault = "none" THEN "ok" ELSE "raised",
      attempts |-> IF fault = "none" THEN 1 ELSE 2 ]

\* NotificationService.send_status_update_notification.
\*   fault:   the call of the try block that raises before the log write:
\*            "compose" _generate_status_message (the send is then never
\*            called), "send" _mock_send_notification, "none" neither
\*   create1: outcome of NotificationLog.objects.create(success=True) in the try block
\*   create2: outcome of NotificationLog.objects.create(success=False) in the handler
\* A database error inside the atomic block marks the transaction for
\* rollback; every later query of the block then raises as well.
send_status_update_notification(status_change, fault, create1, create2) ==
    LET tryOk == fault = "none" /\ create1 = "ok"
        doomed1 == fault = "none" /\ create1 = "dberror"
        handlerOk == ~tryOk /\ ~doomed1 /\ create2 = "ok"
        error_msg == dispatcher_error_msg(fault)
    IN  [ ret |-> IF tryOk THEN "true" ELSE IF handlerOk THEN "false" ELSE "raise",
          rows |-> IF tryOk THEN << NotificationLogRow(status_change, TRUE, "") >>
                   ELSE IF handlerOk THEN << NotificationLogRow(status_change, FALSE, error_msg) >>
                   ELSE <<>>,
          doomed |-> ~tryOk /\ (doomed1 \/ create2 = "dberror"),
          sent |-> CASE fault = "compose" -> "none"
                     [] fault = "send"    -> "raised"
                     [] OTHER             -> "ok",
          attempts |-> IF fault = "compose" THEN 0 ELSE 1 ]

\* ------------------------------------------------------------ transactions
\* an atomic block that commits whatever was written
atomic_exit_always_commit(raised, needs_rollback) == "commit"

\* transaction.atomic().__exit__: commit only when the block ended without
\* an exception and the transaction is not marked for rollback
atomic_exit(raised, needs_rollback) ==
    IF raised \/ needs_rollback THEN "rollback" ELSE "commit"

\* mutated: the commit replaces the candidate's rows by the new ones
DbAfterExit_rewrite(q, outcome) ==
    IF outcome = "commit" /\ q.cand \in Cands
    THEN [ candStatus |-> IF q.tx_status # NoCand
                          THEN [candStatus EXCEPT ![q.cand] = q.tx_status]
                          ELSE candStatus,
           history |-> [history EXCEPT ![q.cand] = q.tx_hist],
           notifications |-> [notifications EXCEPT ![q.cand] = @ \o q.tx_notif] ]
    ELSE [ candStatus |-> candStatus, history |-> history, notifications |-> notifications ]

\* the committed tables after slot r leaves its atomic block with record q
DbAfterExit(q, outcome) ==
    IF outcome = "commit" /\ q.cand \in Cands
    THEN [ candStatus |-> IF q.tx_status # NoCand
                          THEN [candStatus EXCEPT ![q.cand] = q.tx_status]
                          ELSE candStatus,
           history |-> [history EXCEPT ![q.cand] = @ \o q.tx_hist],
           notifications |-> [notifications EXCEPT ![q.cand] = @ \o q.tx_notif] ]
    ELSE [ candStatus |-> candStatus, history |-> history, notifications |-> notifications ]

\* what a slot keeps once its handler has returned: the response, the
\* candidate it was about and, for a request refused by validation, the
\* status value that was refused
Finished(q, code, err) ==
    [ IdleReq EXCEPT !.kind = q.kind, !.cand = q.cand,
                     !.admin_header = q.admin_header,
                     !.status = IF code = 400 THEN q.status ELSE Absent,
                     !.code = code, !.err = err ]

ExitAtomic(r, q, raised, code, err) ==
    LET outcome == atomic_exit(raised, q.doomed)
        db == DbAfterExit(q, outcome)
    IN  /\ candStatus' = db.candStatus
        /\ history' = db.history
        /\ notifications' = db.notifications
        /\ req' = [req EXCEPT ![r] = Finished(q, code, err)]
        /\ pc' = [pc EXCEPT ![r] = "done"]

\* ------------------------------------------------------------------- Init
\* no Candidate row: no personal data stored
NoData == [email |-> <<>>, phone |-> <<>>, dob |-> <<0, 0, 0>>, years |-> 0]

\* no form in the slot
NoForm == [email |-> <<>>, phone |-> <<>>, dob |-> <<0, 0, 0>>, years |-> 0,
           rest |-> TRUE, errors |-> {}]

RegInit ==
    /\ candData = [c \in Cands |-> NoData]
    /\ regIn = [r \in Reqs |-> NoForm]

\* no file: the caller passed None
NoUpload ==
    [ present |-> FALSE, name |-> <<>>, size |-> 0, mime |-> "", header |-> <<>>,
      sniff |-> "none", sig |-> "none" ]

\* validate_resume_file has not been called, the resume field of the
\* serializer has not run and neither have the validators of Candidate.resume
NoResult ==
    [ outcome |-> "none", reason |-> "none", checks |-> <<>>,
      field |-> "none", errors |-> <<>>, model |-> "none" ]

FileIdle ==
    /\ upload = NoUpload
    /\ fpos = 0
    /\ fres = NoResult

\* no operation has failed
NoFailure == [op |-> "none", exc |-> "none", text |-> <<>>]

\* no response yet
NoAnswer == [code |-> 0, message |-> <<>>, log |-> <<>>]

FailIdle ==
    /\ failure = NoFailure
    /\ answer = NoAnswer

\* bounds of the log handler
NumEmitters == 2    \* request threads that log through the handler
MaxRecords == 2     \* records emitted in one behaviour
MaxTimers == 3      \* flush timers created in one behaviour
buffer_size == 2    \* the constructor's buffer_size (1000 by default)

Emitters == 1..NumEmitters

\* the thread of the flush timer and the thread that flushes and closes
TimerThread == NumEmitters + 1

CloserThread == NumEmitters + 2

Threads == 1..(NumEmitters + 2)

NoThread == 0

\* a thread outside the handler
NoLocals == [rec |-> 0, urgent |-> FALSE, ret |-> "idle"]

\* __init__ up to the ping: empty buffer, no timer, lock free
HandlerFresh ==
    /\ buffer = <<>>
    /\ lock_holder = NoThread
    /\ tpc = [t \in Threads |-> "idle"]
    /\ tlocal = [t \in Threads |-> NoLocals]
    /\ attempted = {}
    /\ dropped = {}
    /\ closed = FALSE
    /\ nextRec = 1

\* the handler is not configured
ESIdle ==
    /\ HandlerFresh
    /\ es = FALSE
    /\ timers = [i \in 1..MaxTimers |-> "unused"]
    /\ timer_ref = 0

\* no --clear is running: nothing collected
NotClearing == [phase |-> "idle", ids |-> {}, rows |-> [c \in Cands |-> 0]]

\* empty tables, no request in flight, the seeding command not running
WorkflowInit ==
    /\ clearing = NotClearing
    /\ candStatus = [c \in Cands |-> NoCand]
    /\ history = [c \in Cands |-> <<>>]
    /\ notifications = [c \in Cands |-> <<>>]
    /\ nextId = 1
    /\ pc = [r \in Reqs |-> "idle"]
    /\ req = [r \in Reqs |-> IdleReq]
    /\ nSuccess = [c \in Cands |-> 0]
    /\ started = 0

Init ==
    /\ WorkflowInit
    /\ RegInit
    /\ FileIdle
    /\ FailIdle
    /\ ESIdle

Free(r) == pc[r] \in {"idle", "done"}

\* a new request takes the lowest free slot
CanStart(r) ==
    /\ Free(r)
    /\ \A r2 \in Reqs : r2 < r => ~Free(r2)
    /\ started < MaxRequests

\* ------------------------------------------- AdminStatusUpdateView.patch
\* the values of the X-ADMIN header a status-update request arrives with
\* (Absent: the header is not sent)
AdminMarker == "1"

AdminHeaders == {AdminMarker, Absent, "0"}

\* bodies of the status updates sent without the marker: a transition to
\* a valid status and a value outside the enum
UnmarkedBodies ==
    { [status |-> s, comments |-> Absent, changed_by |-> Absent] :
         s \in {"ACCEPTED", BogusStatus} }

\* mutated: any X-ADMIN header that is present grants access
has_permission_if_present(admin_header) == admin_header # Absent

\* IsAdminUser.has_permission
has_permission(admin_header) == ~(admin_header # AdminMarker)

\* APIView.initial (check_permissions with IsAdminUser), then
\* get_object_or_404 and serializer.is_valid()
Admin_Patch(r, c, body, admin_header) ==
    /\ CanStart(r)
    /\ started' = started + 1
    /\ LET st == body.status
           q == [ IdleReq EXCEPT !.kind = "patch", !.cand = c, !.status = st,
                                 !.admin_header = admin_header,
                                 !.comments = body.comments,
                                 !.changed_by = body.changed_by,
                                 !.prev = candStatus[c] ]
       IN  IF ~has_permission(admin_header)
           THEN /\ req' = [req EXCEPT ![r] = Finished(q, 403, "permission_denied")]
                /\ pc' = [pc EXCEPT ![r] = "done"]
           ELSE IF candStatus[c] = NoCand
           THEN /\ req' = [req EXCEPT ![r] = Finished(q, 404, "not_found")]
                /\ pc' = [pc EXCEPT ![r] = "done"]
           ELSE IF st \notin Statuses
           THEN /\ req' = [req EXCEPT ![r] = Finished(q, 400, "invalid_choice")]
                /\ pc' = [pc EXCEPT ![r] = "done"]
           ELSE IF ~validate_status(candStatus[c], st)
           THEN /\ req' = [req EXCEPT ![r] = Finished(q, 400, "already_in_status")]
                /\ pc' = [pc EXCEPT ![r] = "done"]
           ELSE /\ req' = [req EXCEPT ![r] = q]
                /\ pc' = [pc EXCEPT ![r] = "valid"]
    /\ UNCHANGED <<candStatus, history, notifications, nextId, nSuccess>>
    /\ UNCHANGED <<fileVars, regVars, failVars, esVars, seedVars>>

\* a status update sent by an admin client: the request carries X-ADMIN: 1
Patch_Begin(r, c, body) == Admin_Patch(r, c, body, AdminMarker)

\* update_status: candidate.status = new_status; candidate.save()
Patch_Save(r, fails) ==
    /\ pc[r] = "valid"
    /\ IF fails
       THEN ExitAtomic(r, req[r], TRUE, 500, "save_error")
       ELSE /\ ~LockHeld(req[r].cand)
            /\ req' = [req EXCEPT ![r].tx_status = req[r].status]
            /\ pc' = [pc EXCEPT ![r] = "saved"]
            /\ UNCHANGED <<candStatus, history, notifications>>
    /\ UNCHANGED <<nextId, nSuccess, started>>
    /\ UNCHANGED <<fileVars, regVars, failVars, esVars, seedVars>>

\* update_status: StatusHistory.objects.create(...)
Patch_CreateHistory(r, fails) ==
    /\ pc[r] = "saved"
    /\ IF fails
       THEN ExitAtomic(r, req[r], TRUE, 500, "history_error")
       ELSE /\ req' = [req EXCEPT ![r].tx_hist =
                          << StatusHistoryRow(req[r].prev, req[r].status,
                                              GetDefault(req[r].comments, ""),
                                              GetDefault(req[r].changed_by, "admin")) >>]
            /\ pc' = [pc EXCEPT ![r] = "historied"]
            /\ UNCHANGED <<candStatus, history, notifications>>
    /\ UNCHANGED <<nextId, nSuccess, started>>
    /\ UNCHANGED <<fileVars, regVars, failVars, esVars, seedVars>>

\* update_status: try: send_status_update_notification(status_history) except: log
Patch_Notify(r, fault, create1, create2) ==
    /\ pc[r] = "historied"
    /\ LET status_change == Len(history[req[r].cand]) + 1
           res == send_status_update_notification(status_change, fault, create1, create2)
       IN  req' = [req EXCEPT ![r].tx_notif = res.rows, ![r].doomed = res.doomed,
                              ![r].sent = res.sent, ![r].attempts = res.attempts,
                              ![r].ret = res.ret]
    /\ pc' = [pc EXCEPT ![r] = "notified"]
    /\ UNCHANGED <<candStatus, history, notifications, nextId, nSuccess, started>>
    /\ UNCHANGED <<fileVars, regVars, failVars, esVars, seedVars>>

\* update_status returns, the atomic block exits, the view answers success
Patch_Exit(r) ==
    /\ pc[r] = "notified"
    /\ ExitAtomic(r, req[r], FALSE, 200, "none")
    /\ nSuccess' = [nSuccess EXCEPT ![req[r].cand] = @ + 1]
    /\ UNCHANGED <<nextId, started>>
    /\ UNCHANGED <<fileVars, regVars, failVars, esVars, seedVars>>

\* --------------------------------------- CandidateRegistrationView.post
\* serializer.is_valid()
Post_Begin(r, valid) ==
    /\ CanStart(r)
    /\ started' = started + 1
    /\ LET q == [IdleReq EXCEPT !.kind = "post"]
       IN  IF valid
           THEN /\ req' = [req EXCEPT ![r] = q]
                /\ pc' = [pc EXCEPT ![r] = "rvalid"]
           ELSE /\ req' = [req EXCEPT ![r] = Finished(q, 400, "validation")]
                /\ pc' = [pc EXCEPT ![r] = "done"]
    /\ UNCHANGED <<candStatus, history, notifications, nextId, nSuccess>>
    /\ UNCHANGED <<fileVars, regVars, failVars, esVars, seedVars>>

\* create: candidate = super().create(validated_data)
Post_Create(r, fails) ==
    /\ pc[r] = "rvalid"
    /\ IF fails
       THEN /\ ExitAtomic(r, req[r], TRUE, 500, "save_error")
            /\ UNCHANGED nextId
       ELSE /\ nextId <= MaxCand
            /\ req' = [req EXCEPT ![r].cand = nextId, ![r].tx_status = "SUBMITTED"]
            /\ nextId' = nextId + 1
            /\ pc' = [pc EXCEPT ![r] = "rcreated"]
            /\ UNCHANGED <<candStatus, history, notifications>>
    /\ UNCHANGED <<nSuccess, started>>
    /\ UNCHANGED <<fileVars, regVars, failVars, esVars, seedVars>>

\* mutated: the registration also writes a NotificationLog row for its row
Post_CreateHistory_notifying(r, fails) ==
    /\ pc[r] = "rcreated"
    /\ IF fails
       THEN ExitAtomic(r, req[r], TRUE, 500, "history_error")
       ELSE /\ req' = [req EXCEPT ![r].tx_hist = << InitialHistoryRow >>,
                                  ![r].tx_notif = << NotificationLogRow(1, TRUE, "") >>]
            /\ pc' = [pc EXCEPT ![r] = "rhistoried"]
            /\ UNCHANGED <<candStatus, history, notifications>>
    /\ UNCHANGED <<nextId, nSuccess, started>>
    /\ UNCHANGED <<fileVars, regVars, failVars, esVars, seedVars>>

\* create: StatusHistory.objects.create(previous_status=None, ...)
Post_CreateHistory(r, fails) ==
    /\ pc[r] = "rcreated"
    /\ IF fails
       THEN ExitAtomic(r, req[r], TRUE, 500, "history_error")
       ELSE /\ req' = [req EXCEPT ![r].tx_hist = << InitialHistoryRow >>]
            /\ pc' = [pc EXCEPT ![r] = "rhistoried"]
            /\ UNCHANGED <<candStatus, history, notifications>>
    /\ UNCHANGED <<nextId, nSuccess, started>>
    /\ UNCHANGED <<fileVars, regVars, failVars, esVars, seedVars>>

\* the atomic block exits, the view answers 201
Post_Exit(r) ==
    /\ pc[r] = "rhistoried"
    /\ ExitAtomic(r, req[r], FALSE, 201, "none")
    /\ UNCHANGED <<nextId, nSuccess, started>>
    /\ UNCHANGED <<fileVars, regVars, failVars, esVars, seedVars>>

Next ==
    \/ \E r \in Reqs, c \in Cands, body \in PatchBodies : Patch_Begin(r, c, body)
    \/ \E r \in Reqs, f \in BOOLEAN : Patch_Save(r, f)
    \/ \E r \in Reqs, f \in BOOLEAN : Patch_CreateHistory(r, f)
    \/ \E r \in Reqs, s \in SendFaults, c1 \in CreateOutcomes, c2 \in CreateOutcomes :
          Patch_Notify(r, s, c1, c2)
    \/ \E r \in Reqs : Patch_Exit(r)
    \/ \E r \in Reqs, v \in BOOLEAN : Post_Begin(r, v)
    \/ \E r \in Reqs, f \in BOOLEAN : Post_Create(r, f)
    \/ \E r \in Reqs, f \in BOOLEAN : Post_CreateHistory(r, f)
    \/ \E r \in Reqs : Post_Exit(r)

Spec == Init /\ [][Next]_vars

\* bodies of the status updates of the specifications that look at who
\* sends them or at what else runs meanwhile: two statuses, no optional field
StatusOnlyBodies ==
    { b \in PatchBodies : /\ b.status \in {"UNDER_REVIEW", "ACCEPTED"}
                          /\ b.comments = Absent /\ b.changed_by = Absent }

\* The workflow with status updates arriving from any client, with or
\* without the admin marker.
AuthNext ==
    \/ \E r \in Reqs, c \in Cands, body \in StatusOnlyBodies :
          Admin_Patch(r, c, body, AdminMarker)
    \/ \E r \in Reqs, c \in Cands, body \in UnmarkedBodies,
          h \in AdminHeaders \ {AdminMarker} :
          Admin_Patch(r, c, body, h)
    \/ \E r \in Reqs, f \in BOOLEAN : Patch_Save(r, f)
    \/ \E r \in Reqs, f \in BOOLEAN : Patch_CreateHistory(r, f)
    \/ \E r \in Reqs, s \in SendFaults, c1 \in CreateOutcomes, c2 \in CreateOutcomes :
          Patch_Notify(r, s, c1, c2)
    \/ \E r \in Reqs : Patch_Exit(r)
    \/ \E r \in Reqs, v \in BOOLEAN : Post_Begin(r, v)
    \/ \E r \in Reqs, f \in BOOLEAN : Post_Create(r, f)
    \/ \E r \in Reqs, f \in BOOLEAN : Post_CreateHistory(r, f)
    \/ \E r \in Reqs : Post_Exit(r)

SpecAuth == Init /\ [][AuthNext]_vars

\* --------------------------------------- manage.py populate_candidates
\* generate_batch_data: status_choices, every ApplicationStatus value;
\* 'status': random.choice(status_choices) draws one of them
SeedStatuses == Statuses

\* StatusHistory(candidate=candidate, previous_status=None, ...) of a seeded
\* candidate
SeedHistoryRow(status) ==
    [ previous_status |-> Null, new_status |-> status,
      comments |-> "Initial application", changed_by |-> "system" ]

\* handle without --clear, one batch: inside one transaction.atomic()
\* Candidate.objects.bulk_create(candidates, ignore_conflicts=True) inserts
\* the candidates with the status drawn for them, without save() and without
\* the registration serializer.  The batch of the model holds one candidate.
\* StatusHistory rows are written only when batch_count % 10 = 0 (tenth) and
\* only when bulk_create returned objects with primary keys (pks): with
\* ignore_conflicts the backend may return none, the history bulk_create
\* then raises and the exception is swallowed.
Populate_Create(status, tenth, pks) ==
    /\ nextId <= MaxCand
    /\ candStatus' = [candStatus EXCEPT ![nextId] = status]
    /\ history' = [history EXCEPT ![nextId] =
                       IF tenth /\ pks THEN << SeedHistoryRow(status) >> ELSE <<>>]
    /\ nextId' = nextId + 1
    /\ UNCHANGED <<notifications, pc, req, nSuccess, started>>
    /\ UNCHANGED <<fileVars, regVars, failVars, esVars, seedVars>>

\* handle with --clear, Candidate.objects.all().delete(), first query: the
\* delete reads the candidates that are stored.  It runs outside any
\* transaction and sees what is committed.  One run of the command at a
\* time.
Clear_CollectCandidates ==
    /\ clearing.phase = "idle"
    /\ clearing' = [clearing EXCEPT !.phase = "candidates",
                                    !.ids = {c \in Cands : candStatus[c] # NoCand}]
    /\ UNCHANGED <<candStatus, history, notifications, nextId, pc, req,
                   nSuccess, started>>
    /\ UNCHANGED <<fileVars, regVars, failVars, esVars>>

\* Candidate.objects.all().delete(), second query: NotificationLog rows
\* cascade from StatusHistory, so the StatusHistory rows of the collected
\* candidates are read, to be deleted by id; the query sees what is
\* committed by now.  rows[c] is the number of rows read for candidate c.
Clear_CollectHistory ==
    /\ clearing.phase = "candidates"
    /\ clearing' = [clearing EXCEPT !.phase = "history",
                                    !.rows = [c \in Cands |->
                                                IF c \in clearing.ids
                                                THEN Len(history[c]) ELSE 0]]
    /\ UNCHANGED <<candStatus, history, notifications, nextId, pc, req,
                   nSuccess, started>>
    /\ UNCHANGED <<fileVars, regVars, failVars, esVars>>

\* Candidate.objects.all().delete(), the deletion: in one transaction the
\* NotificationLog rows of the collected candidates are deleted by a
\* query, then the collected StatusHistory rows and the collected
\* candidates by id.  The DELETE waits for the row locks that open status
\* updates hold on collected candidates.  A candidate stored after the
\* first query is not touched; a StatusHistory row committed after the
\* second query still refers to its candidate, the foreign key refuses
\* the delete and the transaction is rolled back: nothing is deleted.
\* The sequence of the primary key is not reset.
Clear_Delete ==
    /\ clearing.phase = "history"
    /\ LET ids == clearing.ids
       IN  /\ \A c \in ids : ~LockHeld(c)
           /\ IF \E c \in ids : Len(history[c]) > clearing.rows[c]
              THEN UNCHANGED <<candStatus, history, notifications>>
              ELSE /\ candStatus' = [c \in Cands |->
                                       IF c \in ids THEN NoCand ELSE candStatus[c]]
                   /\ history' = [c \in Cands |->
                                    IF c \in ids THEN <<>> ELSE history[c]]
                   /\ notifications' = [c \in Cands |->
                                          IF c \in ids THEN <<>> ELSE notifications[c]]
    /\ clearing' = NotClearing
    /\ UNCHANGED <<nextId, pc, req, nSuccess, started>>
    /\ UNCHANGED <<fileVars, regVars, failVars, esVars>>

\* the status updates sent while the command runs ask for one status, so
\* that a second one for the same candidate is refused
SeedBodies == { b \in StatusOnlyBodies : b.status = "UNDER_REVIEW" }

\* requests served while the seeding command runs
SeedRequests == 2

\* The workflow on a database that the seeding command fills and clears
\* while requests are served, every request with all of its failures.
SeedNext ==
    \/ /\ started < SeedRequests
       /\ \E r \in Reqs, c \in Cands, body \in SeedBodies : Patch_Begin(r, c, body)
    \/ \E r \in Reqs, f \in BOOLEAN : Patch_Save(r, f)
    \/ \E r \in Reqs, f \in BOOLEAN : Patch_CreateHistory(r, f)
    \/ \E r \in Reqs, s \in SendFaults, c1 \in CreateOutcomes, c2 \in CreateOutcomes :
          Patch_Notify(r, s, c1, c2)
    \/ \E r \in Reqs : Patch_Exit(r)
    \/ /\ started < SeedRequests
       /\ \E r \in Reqs, v \in BOOLEAN : Post_Begin(r, v)
    \/ \E r \in Reqs, f \in BOOLEAN : Post_Create(r, f)
    \/ \E r \in Reqs, f \in BOOLEAN : Post_CreateHistory(r, f)
    \/ \E r \in Reqs : Post_Exit(r)
    \/ \E status \in SeedStatuses, tenth \in BOOLEAN, pks \in BOOLEAN :
          Populate_Create(status, tenth, pks)
    \/ Clear_CollectCandidates
    \/ Clear_CollectHistory
    \/ Clear_Delete

SpecSeed == Init /\ [][SeedNext]_vars

TypeOK ==
    /\ candStatus \in [Cands -> Statuses \cup {NoCand}]
    /\ nextId \in 1..(MaxCand + 1)
    /\ started \in 0..MaxRequests
    /\ \A c \in Cands : nSuccess[c] \in 0..MaxRequests

\* ================================================================ properties
Last(s) == s[Len(s)]

IsPrefix(s, t) == Len(s) <= Len(t) /\ SubSeq(t, 1, Len(s)) = s

\* slot r starts a request in this step
Begins(r) == CanStart(r) /\ started' = started + 1

\* slot r leaves the atomic block of the status view after the dispatcher ran
ExitsAfterNotify(r) == pc[r] = "notified" /\ pc'[r] = "done"

\* C1: a transition request whose requested status equals the candidate's
\* current status is answered 400 with the "already in this status" error on
\* the status field; the step writes no StatusHistory row and no
\* NotificationLog row and leaves the status as it was.
C1_SameStatusRejected ==
    [][\A r \in Reqs :
         ( /\ Begins(r)
           /\ req'[r].kind = "patch"
           /\ req'[r].cand \in Cands
           /\ candStatus[req'[r].cand] # NoCand
           /\ req'[r].status = candStatus[req'[r].cand] )
         => /\ pc'[r] = "done"
            /\ req'[r].code = 400
            /\ req'[r].err = "already_in_status"
            /\ UNCHANGED <<candStatus, history, notifications>>]_vars

\* C1 witness: a candidate that was moved away from SUBMITTED, and a request
\* for the status it now has that was rejected
C1_Witness ==
    \E r \in Reqs :
        /\ pc[r] = "done" /\ req[r].kind = "patch" /\ req[r].err = "already_in_status"
        /\ candStatus[req[r].cand] = req[r].status
        /\ req[r].status # "SUBMITTED"
        /\ Len(history[req[r].cand]) >= 2

\* C2: a candidate with N transition requests answered with success has
\* exactly N+1 StatusHistory rows.
C2_HistoryCount ==
    \A c \in Cands : candStatus[c] # NoCand => Len(history[c]) = nSuccess[c] + 1

\* C3: in every committed state the newest StatusHistory row of a candidate
\* carries the candidate's current status as new_status.
C3_NewestRowIsCurrentStatus ==
    \A c \in Cands :
        candStatus[c] # NoCand =>
            /\ Len(history[c]) >= 1
            /\ Last(history[c]).new_status = candStatus[c]

\* C3 witness: two transitions of one candidate that were in flight together
\* (the second one recorded a stale previous_status) have both committed
C3_Witness ==
    \E c \in Cands :
        /\ Len(history[c]) = 3
        /\ history[c][3].previous_status # history[c][2].new_status
        /\ candStatus[c] = history[c][3].new_status

\* C4: every StatusHistory row but the first has as previous_status the
\* new_status of the row appended just before it.
C4_HistoryChained ==
    \A c \in Cands : \A i \in 2..Len(history[c]) :
        history[c][i].previous_status = history[c][i-1].new_status

\* C5: the status write and the history insert of a transition persist
\* together: a step changes the committed status of an existing candidate, or
\* its committed history, only by appending one row whose new_status is the
\* status the candidate has after the step.
C5_StatusAndHistoryAtomic ==
    [][\A c \in Cands :
         ( /\ candStatus[c] # NoCand
           /\ (candStatus'[c] # candStatus[c] \/ history'[c] # history[c]) )
         => /\ Len(history'[c]) = Len(history[c]) + 1
            /\ IsPrefix(history[c], history'[c])
            /\ Last(history'[c]).new_status = candStatus'[c]
            /\ Last(history'[c]).previous_status \in Statuses]_vars

\* C5 witness: a transition of a SUBMITTED candidate whose history insert
\* failed after its status write; the candidate is still SUBMITTED and has
\* its initial row only
C5_Witness ==
    \E r \in Reqs :
        /\ pc[r] = "done" /\ req[r].kind = "patch" /\ req[r].err = "history_error"
        /\ req[r].code = 500
        /\ candStatus[req[r].cand] = "SUBMITTED"
        /\ Len(history[req[r].cand]) = 1

\* C6: when the send path raised (the message could not be composed or the
\* send itself raised), the transition commits and is answered with
\* success: the candidate has the requested status, the new history row is
\* stored, and a NotificationLog row with success=false refers to it.
C6_SendFailureIsolated ==
    [][\A r \in Reqs :
         (ExitsAfterNotify(r) /\ req[r].sent # "ok")
         => LET c == req[r].cand
            IN  /\ req'[r].code = 200
                /\ candStatus'[c] = req[r].status
                /\ history'[c] = history[c] \o req[r].tx_hist
                /\ \E i \in 1..Len(notifications'[c]) :
                      /\ notifications'[c][i].status_change = Len(history'[c])
                      /\ notifications'[c][i].success = FALSE]_vars

\* C7: send_status_update_notification returns true or false and never
\* raises to its caller.
C7_DispatcherNeverRaises ==
    \A r \in Reqs : req[r].ret # "raise"

\* C8: a transition makes at most one send attempt and writes at most one
\* NotificationLog row for its history entry, also when the send failed, and
\* no step changes or removes a NotificationLog row that exists.
C8_AtMostOnce ==
    /\ [](\A r \in Reqs : req[r].attempts <= 1 /\ Len(req[r].tx_notif) <= 1)
    /\ [](\A c \in Cands : \A i, j \in 1..Len(notifications[c]) :
             notifications[c][i].status_change = notifications[c][j].status_change => i = j)
    /\ [][\A c \in Cands : IsPrefix(notifications[c], notifications'[c])]_vars

\* C8 witness: a failed send was logged, and a later transition of the same
\* candidate has been committed since
C8_Witness ==
    \E c \in Cands :
        /\ Len(notifications[c]) >= 1
        /\ notifications[c][1].success = FALSE
        /\ notifications[c][1].error_message = "send failed"
        /\ notifications[c][1].status_change = 2
        /\ Len(history[c]) = 3

\* C9: the dispatcher acts on committed transitions only: a transition for
\* which the send was attempted is never rolled back afterwards.
C9_NotifiedImpliesCommitted ==
    [][\A r \in Reqs :
         (ExitsAfterNotify(r) /\ req[r].sent # "none")
         => /\ candStatus'[req[r].cand] = req[r].status
            /\ history'[req[r].cand] = history[req[r].cand] \o req[r].tx_hist]_vars

\* the first row the registration contract asks for
C10_FirstRow ==
    [ previous_status |-> Null, new_status |-> "SUBMITTED",
      comments |-> "Initial application submitted", changed_by |-> "system" ]

\* C10: a candidate appears in the committed state together with its first
\* StatusHistory row: status SUBMITTED, exactly one row, previous_status
\* null, new_status SUBMITTED, changed_by "system" and the fixed comment;
\* every registered candidate keeps that row as its oldest one.
C10_RegistrationAtomic ==
    /\ [](\A c \in Cands :
            candStatus[c] # NoCand =>
                Len(history[c]) >= 1 /\ history[c][1] = C10_FirstRow)
    /\ [][\A c \in Cands :
            (candStatus[c] = NoCand /\ candStatus'[c] # NoCand)
            => /\ candStatus'[c] = "SUBMITTED"
               /\ history'[c] = << C10_FirstRow >>
               /\ notifications'[c] = <<>>]_vars

\* C10 witness: a registration answered 201 whose candidate is stored with
\* its single initial row, after another registration failed midway
C10_Witness ==
    \E r, r2 \in Reqs, c \in Cands :
        /\ pc[r] = "done" /\ req[r].kind = "post" /\ req[r].code = 201
        /\ req[r].cand = c
        /\ candStatus[c] = "SUBMITTED"
        /\ Len(history[c]) = 1
        /\ pc[r2] = "done" /\ req[r2].kind = "post" /\ req[r2].err = "history_error"
        /\ req[r2].cand \in Cands /\ candStatus[req[r2].cand] = NoCand

\* ===================================================================
\* validators.py: validate_resume_file, a pure function of the uploaded
\* file, of what the content sniffer reports and of the stream's faults
\* ===================================================================

MAX_FILE_SIZE == 5 * 1024 * 1024

DocxMime == "application/vnd.openxmlformats-officedocument.wordprocessingml.document"

\* MIME type -> extensions that may carry it
ALLOWED_MIME_TYPES ==
    [ m \in {"application/pdf", DocxMime, "application/msword"} |->
        IF m = "application/pdf" THEN {"pdf"}
        ELSE IF m = DocxMime THEN {"docx"}
        ELSE {"doc"} ]

\* magic byte sequences in the dictionary's insertion order:
\* b'%PDF', b'PK\x03\x04', b'\xd0\xcf\x11\xe0\xa1\xb1\x1a\xe1'
FILE_SIGNATURES ==
    << [signature |-> <<37, 80, 68, 70>>, file_type |-> "pdf"],
       [signature |-> <<80, 75, 3, 4>>, file_type |-> "docx"],
       [signature |-> <<208, 207, 17, 224, 161, 177, 26, 225>>, file_type |-> "doc"] >>

\* the literal list ['pdf', 'docx', 'doc'] of lines 47 and 99
KnownTypes == {"pdf", "docx", "doc"}

\* file names as tokens: "." separates, every other token is a run of
\* characters without a dot
FileNames ==
    { <<>>,
      <<".", "pdf">>,
      <<"x", ".", "pdf">>,
      <<"X", ".", "PDF">>,
      <<"x", ".", "docx">>,
      <<"x", ".", "doc">>,
      <<"x", ".", "txt">>,
      <<"pdf">>,
      <<"x", ".", "pdf", ".", "exe">> }

\* file sizes: empty, small, and around the limit
FileSizes == {0, 50, MAX_FILE_SIZE, MAX_FILE_SIZE + 1}

\* what magic.from_buffer(..., mime=True) reports for the first 1024 bytes
SniffedMimes ==
    {"application/pdf", DocxMime, "application/msword", "application/zip", "text/plain"}

\* the first 8 bytes of the content: "%PDF-1.4", a ZIP local file header,
\* an OLE2 header, "Hello wo", "\n%PDF-1." and "%PD\n1.4\n"
FileHeaders ==
    { <<37, 80, 68, 70, 45, 49, 46, 52>>,
      <<80, 75, 3, 4, 20, 0, 6, 0>>,
      <<208, 207, 17, 224, 161, 177, 26, 225>>,
      <<72, 101, 108, 108, 111, 32, 119, 111>>,
      <<10, 37, 80, 68, 70, 45, 49, 46>>,
      <<37, 80, 68, 10, 49, 46, 52, 10>> }

\* the content-sniffing block: runs normally, or its first seek raises
SniffFaults == {"none", "raise"}

\* the signature block: runs normally, or its first seek raises, or read(8)
\* raises before or after the stream advanced, or the seek after the read
\* raises
SigFaults == {"none", "seek", "read_at0", "read_advanced", "reset"}

\* stream positions the caller may hand the file over at
EntryPositions == {0, 50}

Uploads ==
    {NoUpload} \cup
    [ present : {TRUE}, name : FileNames, size : FileSizes, mime : SniffedMimes,
      header : FileHeaders, sniff : SniffFaults, sig : SigFaults ]

\* str.lower() on the tokens of a name
lower(name) ==
    [ i \in 1..Len(name) |->
        IF name[i] = "PDF" THEN "pdf" ELSE IF name[i] = "X" THEN "x" ELSE name[i] ]

\* filename.split('.')[-1] if '.' in filename else ''
file_extension(filename) ==
    IF \E i \in 1..Len(filename) : filename[i] = "."
    THEN IF filename[Len(filename)] = "." THEN "" ELSE filename[Len(filename)]
    ELSE ""

\* bytes.startswith
startswith(b, prefix) ==
    /\ Len(b) >= Len(prefix)
    /\ \A i \in 1..Len(prefix) : b[i] = prefix[i]

\* bool(file): None is falsy, and a Django File is falsy when its name is empty
Truthy(f) == f.present /\ f.name # <<>>

\* line 35, mutated: a file of exactly the limit is refused
ExceedsMaxSize_inclusive(size) == size >= MAX_FILE_SIZE

\* line 35: file.size > MAX_FILE_SIZE
ExceedsMaxSize(size) == size > MAX_FILE_SIZE

\* lines 54-88, mutated: an unexpected error is logged and ignored
MimeStep_swallow(f, ext) ==
    IF f.sniff = "raise" THEN "ok"
    ELSE IF f.mime \notin DOMAIN ALLOWED_MIME_TYPES THEN "bad_mime"
    ELSE IF ext \notin ALLOWED_MIME_TYPES[f.mime] THEN "mime_mismatch"
    ELSE "ok"

\* lines 54-88: the MIME type reported for the first 1024 bytes must be an
\* allowed one and must list the extension; any other exception becomes
\* the rejection "Unable to validate file"
MimeStep(f, ext) ==
    IF f.sniff = "raise" THEN "unable"
    ELSE IF f.mime \notin DOMAIN ALLOWED_MIME_TYPES THEN "bad_mime"
    ELSE IF ext \notin ALLOWED_MIME_TYPES[f.mime] THEN "mime_mismatch"
    ELSE "ok"

\* lines 96-101: the loop over FILE_SIGNATURES stops at the first signature
\* the header starts with; the test inside compares the signature's type and
\* the extension with the whole list, not with each other
signature_valid(file_header, ext) ==
    LET hits == { i \in 1..Len(FILE_SIGNATURES) :
                    startswith(file_header, FILE_SIGNATURES[i].signature) }
    IN  /\ hits # {}
        /\ LET first == CHOOSE i \in hits : \A j \in hits : i <= j
           IN  /\ FILE_SIGNATURES[first].file_type \in KnownTypes
               /\ ext \in KnownTypes

\* lines 91-116, mutated: an unexpected error rejects the file
SignatureStep_strict(f, ext) ==
    IF f.sig # "none" THEN [reason |-> "corrupted", pos |-> 0]
    ELSE IF signature_valid(f.header, ext) THEN [reason |-> "ok", pos |-> 0]
    ELSE [reason |-> "corrupted", pos |-> 0]

\* lines 91-116: seek(0), read(8), seek(0), then the signature test. The
\* block starts at position 0 (line 62). A ValidationError is re-raised,
\* any other exception is logged and dropped where it was raised.
SignatureStep(f, ext) ==
    IF f.sig \in {"seek", "read_at0"} THEN [reason |-> "ok", pos |-> 0]
    ELSE IF f.sig \in {"read_advanced", "reset"} THEN [reason |-> "ok", pos |-> Len(f.header)]
    ELSE IF signature_valid(f.header, ext) THEN [reason |-> "ok", pos |-> 0]
    ELSE [reason |-> "corrupted", pos |-> 0]

\* lines 26-121: the checks in the order of the code, each one raising
\* ValidationError with its own message; checks lists the checks evaluated.
\* A rejection before the MIME block leaves the stream where it was; the
\* MIME block has run seek(0), read(1024), seek(0) before it rejects a type
\* (the stream is at 0), and has not moved the stream when its first seek
\* raises; the signature block rejects after its own seek(0).
validate_resume_file(f, entry) ==
    LET filename == IF f.name # <<>> THEN lower(f.name) ELSE <<>>
        ext == file_extension(filename)
        sigres == SignatureStep(f, ext)
        Rejected(reason, checks, pos) ==
            [outcome |-> "rejected", reason |-> reason, checks |-> checks, pos |-> pos]
    IN  IF ~Truthy(f)
        THEN Rejected("no_file", <<"presence">>, entry)
        ELSE IF ExceedsMaxSize(f.size)
        THEN Rejected("too_large", <<"presence", "size">>, entry)
        ELSE IF filename = <<>>
        THEN Rejected("no_filename", <<"presence", "size", "filename">>, entry)
        ELSE IF ext \notin KnownTypes
        THEN Rejected("bad_extension", <<"presence", "size", "filename", "extension">>, entry)
        ELSE IF MimeStep(f, ext) # "ok"
        THEN Rejected(MimeStep(f, ext),
                      <<"presence", "size", "filename", "extension", "mime">>,
                      IF MimeStep(f, ext) = "unable" THEN entry ELSE 0)
        ELSE IF sigres.reason # "ok"
        THEN Rejected(sigres.reason,
                      <<"presence", "size", "filename", "extension", "mime", "signature">>,
                      sigres.pos)
        ELSE [ outcome |-> "accepted", reason |-> "none",
               checks |-> <<"presence", "size", "filename", "extension", "mime", "signature">>,
               pos |-> sigres.pos ]

\* a file as the caller hands it over, before validation
FileInit ==
    /\ WorkflowInit
    /\ RegInit
    /\ upload \in Uploads
    /\ fpos \in EntryPositions
    /\ fres = NoResult
    /\ FailIdle
    /\ ESIdle

\* validate_resume_file(file) applied to the file
Validate ==
    /\ fres = NoResult
    /\ LET res == validate_resume_file(upload, fpos)
       IN  /\ fres' = [NoResult EXCEPT !.outcome = res.outcome, !.reason = res.reason,
                                       !.checks = res.checks]
           /\ fpos' = res.pos
    /\ UNCHANGED <<upload, candStatus, history, notifications, nextId, pc, req,
                   nSuccess, started, regVars, failVars, esVars, seedVars>>

\* Path(name).suffix[1:]: what follows the last dot of the name, nothing
\* when the name has no dot, starts with its only dot or ends with a dot
Path_suffix(name) ==
    IF Len(name) >= 3 /\ name[Len(name) - 1] = "." /\ name[Len(name)] # "."
    THEN name[Len(name)]
    ELSE ""

\* FileExtensionValidator(allowed_extensions=['pdf', 'docx']): passes when
\* the lowercased suffix of the name is one of the two
FileExtensionValidator(f) ==
    LET extension == Path_suffix(lower(f.name))
    IN  extension \in {"pdf", "docx"}

\* the resume field of the serializer, serializers.FileField(validators=
\* [FileExtensionValidator(...), validate_resume_file]).run_validation:
\* None is refused ('null'); to_internal_value refuses a file without a
\* name ('no_name') and an empty file ('empty'); run_validators then calls
\* every validator of the list, collects the errors of those that raise
\* and refuses the file when there is any.  validate_resume_file runs
\* also when the extension validator has refused the name.
resume_run_validation(f, entry) ==
    LET Refused(code) ==
            [ field |-> "rejected", errors |-> <<code>>,
              res |-> [outcome |-> "none", reason |-> "none", checks |-> <<>>, pos |-> entry] ]
    IN  IF ~f.present THEN Refused("null")
        ELSE IF f.name = <<>> THEN Refused("no_name")
        ELSE IF f.size = 0 THEN Refused("empty")
        ELSE LET res == validate_resume_file(f, entry)
                 errors == (IF FileExtensionValidator(f) THEN <<>> ELSE <<"invalid_extension">>)
                           \o (IF res.outcome = "rejected" THEN <<res.reason>> ELSE <<>>)
             IN  [ field |-> IF errors = <<>> THEN "accepted" ELSE "rejected",
                   errors |-> errors, res |-> res ]

\* serializer.is_valid() reaches the resume field
Field_Validate ==
    /\ fres = NoResult
    /\ LET v == resume_run_validation(upload, fpos)
       IN  /\ fres' = [ outcome |-> v.res.outcome, reason |-> v.res.reason,
                        checks |-> v.res.checks, field |-> v.field,
                        errors |-> v.errors, model |-> "none" ]
           /\ fpos' = v.res.pos
    /\ UNCHANGED <<upload, candStatus, history, notifications, nextId, pc, req,
                   nSuccess, started, regVars, failVars, esVars, seedVars>>

\* Candidate.save() -> full_clean() -> clean_fields(): the validators of
\* Candidate.resume, FileExtensionValidator(['pdf', 'docx']) alone, run on
\* the file the serializer accepted, which still carries the uploaded name
Model_CleanResume ==
    /\ fres.field = "accepted"
    /\ fres.model = "none"
    /\ fres' = [fres EXCEPT !.model = IF FileExtensionValidator(upload)
                                      THEN "accepted" ELSE "rejected"]
    /\ UNCHANGED <<upload, fpos, candStatus, history, notifications, nextId, pc, req,
                   nSuccess, started, regVars, failVars, esVars, seedVars>>

\* one file: validate_resume_file applied to it, or the file taken through
\* the resume field of the serializer and then through Candidate.full_clean
FileNext ==
    \/ Validate
    \/ Field_Validate
    \/ Model_CleanResume

SpecFile == FileInit /\ [][FileNext]_vars

\* ------------------------------------------ validate_file_content_safety
\* the entries of suspicious_patterns that the token names can contain:
\* '.exe', '.bat', '.cmd', '.scr', '.vbs', a dot followed by the token
SuspiciousTokens == {"exe", "bat", "cmd", "scr", "vbs"}

\* any(pattern in filename_lower for pattern in suspicious_patterns)
suspicious(filename_lower) ==
    \E i \in 1..(Len(filename_lower) - 1) :
        filename_lower[i] = "." /\ filename_lower[i + 1] \in SuspiciousTokens

\* validate_file_content_safety: seek(0), the filename patterns, the
\* minimum size of 100 bytes, seek(0).  A ValidationError is re-raised; any
\* other exception (file is None, the first seek raises) is logged and
\* dropped, and the file is returned where the stream was.  Nothing in the
\* repository calls this function.
validate_file_content_safety(f, entry, seek_raises) ==
    LET filename_lower == IF f.name # <<>> THEN lower(f.name) ELSE <<>>
    IN  IF ~f.present \/ seek_raises
        THEN [outcome |-> "accepted", reason |-> "none", checks |-> <<>>, pos |-> entry]
        ELSE IF suspicious(filename_lower)
        THEN [outcome |-> "rejected", reason |-> "unsafe_filename",
              checks |-> <<"patterns">>, pos |-> 0]
        ELSE IF f.size < 100
        THEN [outcome |-> "rejected", reason |-> "too_small",
              checks |-> <<"patterns", "min_size">>, pos |-> 0]
        ELSE [outcome |-> "accepted", reason |-> "none",
              checks |-> <<"patterns", "min_size">>, pos |-> 0]

\* a caller hands the uploaded file to validate_file_content_safety
Validate_Safety(seek_raises) ==
    /\ fres = NoResult
    /\ LET res == validate_file_content_safety(upload, fpos, seek_raises)
       IN  /\ fres' = [NoResult EXCEPT !.outcome = res.outcome, !.reason = res.reason,
                                       !.checks = res.checks]
           /\ fpos' = res.pos
    /\ UNCHANGED <<upload, candStatus, history, notifications, nextId, pc, req,
                   nSuccess, started, regVars, failVars, esVars, seedVars>>

\* the additional check run on its own on every file
SpecSafety == FileInit /\ [][\E seek_raises \in BOOLEAN : Validate_Safety(seek_raises)]_vars

FileTypeOK ==
    /\ upload \in Uploads
    /\ fpos \in Nat
    /\ fres.outcome \in {"none", "accepted", "rejected"}
    /\ fres.field \in {"none", "accepted", "rejected"}
    /\ fres.model \in {"none", "accepted", "rejected"}

\* what the resume field adds to validate_resume_file: it accepts a file
\* exactly when validate_resume_file accepts it and the name ends in .pdf
\* or .docx, so a .doc file is never accepted; and the validators of
\* Candidate.resume never refuse a file the field accepted
FieldAcceptance ==
    /\ fres.field # "none"
          => ( fres.field = "accepted"
                 <=> /\ fres.outcome = "accepted"
                     /\ Path_suffix(lower(upload.name)) \in {"pdf", "docx"} )
    /\ fres.field = "accepted"
          => /\ file_extension(lower(upload.name)) \in {"pdf", "docx"}
             /\ upload.size > 0
    /\ fres.model # "rejected"

\* ---------------------------------------------- file validator properties
\* the extension the name of the uploaded file carries
UploadExt == file_extension(lower(upload.name))

\* the header starts with one of the three recognized magic sequences
Recognized(file_header) ==
    \E i \in 1..Len(FILE_SIGNATURES) : startswith(file_header, FILE_SIGNATURES[i].signature)

\* the header starts with the magic sequence of the family of extension e
StartsWithFamily(file_header, e) ==
    \E i \in 1..Len(FILE_SIGNATURES) :
        /\ FILE_SIGNATURES[i].file_type = e
        /\ startswith(file_header, FILE_SIGNATURES[i].signature)

\* the sniffed MIME type is an allowed one and belongs to the extension
MimeAgrees(f) ==
    \/ f.mime = "application/pdf" /\ file_extension(lower(f.name)) = "pdf"
    \/ f.mime = DocxMime /\ file_extension(lower(f.name)) = "docx"
    \/ f.mime = "application/msword" /\ file_extension(lower(f.name)) = "doc"

\* presence, name, size, extension and content sniffing all pass
PassesBeforeSignature(f) ==
    /\ f.present /\ f.name # <<>>
    /\ f.size <= 5 * 1024 * 1024
    /\ f.sniff = "none"
    /\ MimeAgrees(f)

\* C15: the size check rejects exactly the sizes greater than 5*1024*1024
\* bytes; a file passing every other check is accepted at exactly
\* 5*1024*1024 bytes and rejected at 5*1024*1024 + 1.
C15_SizeBoundary ==
    fres.outcome # "none" =>
        /\ (upload.present /\ upload.name # <<>>) =>
              (fres.reason = "too_large" <=> upload.size > 5 * 1024 * 1024)
        /\ ( /\ upload.present /\ upload.name # <<>>
             /\ upload.sniff = "none" /\ MimeAgrees(upload)
             /\ upload.sig = "none" /\ Recognized(upload.header) )
           => /\ upload.size = 5 * 1024 * 1024 => fres.outcome = "accepted"
              /\ upload.size = 5 * 1024 * 1024 + 1 => fres.outcome = "rejected"

\* C15 witness: a file of exactly 5*1024*1024 bytes was accepted
C15_Witness ==
    /\ fres.outcome = "accepted"
    /\ upload.size = 5 * 1024 * 1024
    /\ upload.sig = "none"

\* C16: a file is accepted only if its first bytes start with the magic
\* sequence of the type family its extension names (a .pdf name needs
\* %PDF); a file named x.pdf that starts with %PDF, is sniffed as PDF and
\* is at most 5 MiB large is accepted.
C16_SignatureOfExtension ==
    /\ (fres.outcome = "accepted" /\ upload.sig = "none")
           => StartsWithFamily(upload.header, UploadExt)
    /\ ( /\ fres.outcome # "none"
         /\ upload.present /\ upload.name = <<"x", ".", "pdf">>
         /\ startswith(upload.header, <<37, 80, 68, 70>>)
         /\ upload.mime = "application/pdf"
         /\ upload.size <= 5 * 1024 * 1024
         /\ upload.sniff = "none" /\ upload.sig = "none" )
       => fres.outcome = "accepted"

\* the reasons the claimed order of checks allows for the uploaded file:
\* those of the earliest check that fails, "none" when every check passes
C17_Expected ==
    IF ~upload.present \/ upload.name = <<>> THEN {"no_file", "no_filename"}
    ELSE IF upload.size > 5 * 1024 * 1024 THEN {"too_large"}
    ELSE IF UploadExt \notin {"pdf", "docx", "doc"} THEN {"bad_extension"}
    ELSE IF upload.sniff # "none" THEN {"unable"}
    ELSE IF ~MimeAgrees(upload) THEN {"bad_mime", "mime_mismatch"}
    ELSE IF upload.sig = "none" /\ ~Recognized(upload.header) THEN {"corrupted"}
    ELSE {"none"}

\* the check each reason belongs to
C17_CheckOf ==
    [ reason \in {"no_file", "no_filename", "too_large", "bad_extension", "unable",
                  "bad_mime", "mime_mismatch", "corrupted", "none"} |->
        CASE reason = "no_file" -> {"presence"}
          [] reason = "no_filename" -> {"filename"}
          [] reason = "too_large" -> {"size"}
          [] reason = "bad_extension" -> {"extension"}
          [] reason \in {"unable", "bad_mime", "mime_mismatch"} -> {"mime"}
          [] OTHER -> {"signature"} ]

\* C17: the checks run in the order presence and non-empty filename, size,
\* extension, content sniffing, signature; validation stops at the first
\* failing check, no later check is evaluated, and the reported reason is
\* that of the earliest failing check.
C17_ChecksInOrder ==
    fres.outcome # "none" =>
        /\ fres.reason \in C17_Expected
        /\ fres.outcome = "rejected" <=> fres.reason # "none"
        /\ fres.checks # <<>>
        /\ fres.checks[Len(fres.checks)] \in C17_CheckOf[fres.reason]
        /\ IsPrefix(fres.checks,
                    <<"presence", "size", "filename", "extension", "mime", "signature">>)

\* C17 witness: an oversized file with a forbidden extension and an unknown
\* content was refused for its size, and nothing after the size was checked
C17_Witness ==
    /\ fres.reason = "too_large"
    /\ UploadExt = "txt"
    /\ upload.mime = "text/plain"
    /\ fres.checks = <<"presence", "size">>

\* C18: whenever validate_resume_file accepts a file the stream position
\* is 0 on return, whatever it was on entry.
C18_PositionReset ==
    fres.outcome = "accepted" => fpos = 0

\* C19: an unexpected error while the signature step reads the header does
\* not reject the file; a header that was read and starts with no
\* recognized signature always rejects it; a rejection by an earlier check
\* is never replaced or hidden by the signature step.
C19_SignatureStepErrors ==
    fres.outcome # "none" =>
        /\ (PassesBeforeSignature(upload) /\ upload.sig # "none")
               => fres.outcome = "accepted"
        /\ (PassesBeforeSignature(upload) /\ upload.sig = "none"
                /\ ~Recognized(upload.header))
               => fres.outcome = "rejected" /\ fres.reason = "corrupted"
        /\ ~PassesBeforeSignature(upload)
               => fres.outcome = "rejected" /\ fres.reason # "corrupted"

\* C19 witness: the header could not be read and the file, which no earlier
\* check refused, was accepted although its content shows no signature
C19_Witness ==
    /\ fres.outcome = "accepted"
    /\ upload.sig = "read_at0"
    /\ ~Recognized(upload.header)

\* ===================================================================
\* Registration in detail: CandidateRegistrationSerializer's field and
\* cross-field validation, Candidate.full_clean() on save and the unique
\* indexes on email and phone_number
\* ===================================================================

\* date.today(), as (year, month, day)
Today == <<2026, 10, 30>>

\* dates of birth: 16 today, 16 tomorrow, 17 today, in the future, 126 years ago
Dob16 == <<2010, 10, 30>>
Dob15 == <<2010, 10, 31>>
Dob17 == <<2009, 10, 30>>
DobFuture == <<2027, 1, 1>>
DobAncient == <<1900, 1, 1>>

\* e-mail addresses as tokens, "@" separating local part and domain
EmailA == <<"ann", "@", "x.org">>
EmailAUpper == <<"ANN", "@", "X.ORG">>
EmailB == <<"bob", "@", "x.org">>
EmailSuspicious == <<"joe", "@", "example.com">>

\* phone numbers as characters: 7 digits, 7 digits, 6 digits
PhoneA == <<"+", "1", "2", "3", "4", "5", "6", "7">>
PhoneB == <<"5", "5", "5", "-", "0", "1", "0", "0">>
PhoneShort == <<"1", "2", "3", "4", "5", "6">>

\* forms every check accepts while no stored candidate shares their e-mail
\* or phone number; rest stands for full_name, department and resume
GoodForms ==
    { [email |-> e, phone |-> p, dob |-> Dob16, years |-> 0, rest |-> TRUE, errors |-> {}] :
        e \in {EmailA, EmailAUpper, EmailB}, p \in {PhoneA, PhoneB} }
    \cup { [email |-> EmailB, phone |-> PhoneB, dob |-> Dob17, years |-> 1,
            rest |-> TRUE, errors |-> {}] }

\* forms some check refuses whatever is stored
BadForms ==
    { [email |-> x[1], phone |-> x[2], dob |-> x[3], years |-> x[4], rest |-> x[5], errors |-> {}] :
        x \in { <<EmailSuspicious, PhoneA, Dob16, 0, TRUE>>,
                <<EmailA, PhoneShort, Dob16, 0, TRUE>>,
                <<EmailA, PhoneA, Dob16, 0, FALSE>>,
                <<EmailA, PhoneA, Dob17, 0 - 1, TRUE>>,
                <<EmailA, PhoneA, Dob17, 51, TRUE>>,
                <<EmailA, PhoneA, Dob16, 1, TRUE>>,
                <<EmailA, PhoneA, Dob17, 2, TRUE>>,
                <<EmailA, PhoneA, Dob15, 0, TRUE>>,
                <<EmailA, PhoneA, Dob15, 1, TRUE>>,
                <<EmailA, PhoneA, DobFuture, 0, TRUE>>,
                <<EmailA, PhoneA, DobFuture, 1, TRUE>>,
                <<EmailA, PhoneA, DobAncient, 0, TRUE>>,
                <<EmailSuspicious, PhoneA, Dob17, 2, TRUE>>,
                <<EmailA, PhoneA, DobAncient, 51, TRUE>> } }

\* request.data of the registrations
Forms == GoodForms \cup BadForms

\* the columns a form fills in
FormData(f) == [email |-> f.email, phone |-> f.phone, dob |-> f.dob, years |-> f.years]

\* value.strip().lower() on the tokens of an address
email_lower(value) ==
    [ i \in 1..Len(value) |->
        IF value[i] = "ANN" THEN "ann" ELSE IF value[i] = "X.ORG" THEN "x.org" ELSE value[i] ]

\* ''.join(c for c in value if c.isdigit())
phone_digits(value) ==
    SelectSeq(value, LAMBDA c : c \in {"0", "1", "2", "3", "4", "5", "6", "7", "8", "9"})

\* tuple comparison (month, day) < (month, day)
TupleLess(a, b) == a[1] < b[1] \/ (a[1] = b[1] /\ a[2] < b[2])

\* today.year - dob.year - ((today.month, today.day) < (dob.month, dob.day))
AgeOn(today, date_of_birth) ==
    today[1] - date_of_birth[1]
        - (IF TupleLess(<<today[2], today[3]>>, <<date_of_birth[2], date_of_birth[3]>>)
           THEN 1 ELSE 0)

\* Candidate.objects.filter(email=value).exists() on the committed rows
EmailExists(value) == \E c \in Cands : candStatus[c] # NoCand /\ candData[c].email = value

\* Candidate.objects.filter(phone_number=value).exists() on the committed rows
PhoneExists(value) == \E c \in Cands : candStatus[c] # NoCand /\ candData[c].phone = value

\* validate_email: lower-cases, refuses an address a candidate already has
\* and the domains example.com, test.com, localhost
validate_email(value) ==
    LET v == email_lower(value)
        domain == IF \E i \in 1..Len(v) : v[i] = "@" THEN v[Len(v)] ELSE ""
    IN  [ value |-> v,
          errors |-> IF EmailExists(v) THEN {"email"}
                     ELSE IF domain \in {"example.com", "test.com", "localhost"}
                     THEN {"email"} ELSE {} ]

\* validate_phone_number: refuses a number a candidate already has and
\* numbers with fewer than 7 or more than 15 digits
validate_phone_number(value) ==
    [ value |-> value,
      errors |-> IF PhoneExists(value) THEN {"phone_number"}
                 ELSE IF Len(phone_digits(value)) < 7 THEN {"phone_number"}
                 ELSE IF Len(phone_digits(value)) > 15 THEN {"phone_number"}
                 ELSE {} ]

\* validate_years_of_experience: value < 0 and value > 50 are refused
validate_years_of_experience(value) ==
    IF value < 0 THEN {"years_of_experience"}
    ELSE IF value > 50 THEN {"years_of_experience"}
    ELSE {}

\* max(a, b)
max(a, b) == IF a >= b THEN a ELSE b

\* validate: the age must lie in 0..120, and a positive experience must
\* not exceed max(0, age - 16)
validate(data) ==
    LET age == AgeOn(Today, data.dob)
    IN  IF age < 0 \/ age > 120 THEN {"date_of_birth"}
        ELSE IF data.years > 0 /\ data.years > max(0, age - 16)
        THEN {"years_of_experience"}
        ELSE {}

\* serializer.is_valid() after the e-mail field: the validators of the
\* remaining fields run and their errors are added to the e-mail's, which
\* form.errors holds; validate() runs only when no field failed
is_valid(form) ==
    LET p == validate_phone_number(form.phone)
        field_errors == form.errors \cup p.errors
                          \cup validate_years_of_experience(form.years)
                          \cup (IF form.rest THEN {} ELSE {"other"})
        data == [form EXCEPT !.phone = p.value]
    IN  [ validated_data |-> data,
          errors |-> IF field_errors # {} THEN field_errors ELSE validate(data) ]

\* Candidate.clean, mutated: a candidate of exactly 16 is refused
Candidate_clean_over16(date_of_birth) == ~(AgeOn(Today, date_of_birth) <= 16)

\* Candidate.clean: passes unless the age is below 16
Candidate_clean(date_of_birth) == ~(AgeOn(Today, date_of_birth) < 16)

\* full_clean's validate_unique and the unique indexes, on committed rows
UniqueOk(data) == ~EmailExists(data.email) /\ ~PhoneExists(data.phone)

\* the INSERT waits while an open transaction holds a row with the same
\* e-mail or phone number
InsertBlocked(r) ==
    \E r2 \in Reqs \ {r} :
        /\ pc[r2] \in {"rcreated", "rhistoried"}
        /\ regIn[r2].email = regIn[r].email \/ regIn[r2].phone = regIn[r].phone

\* mutated: the Candidate row survives the rollback
CandDataAfterExit_always(r, q, raised) ==
    IF q.cand \in Cands
    THEN [candData EXCEPT ![q.cand] = FormData(regIn[r])]
    ELSE candData

\* the Candidate table after the atomic block of request q ends
CandDataAfterExit(r, q, raised) ==
    IF atomic_exit(raised, q.doomed) = "commit" /\ q.cand \in Cands
    THEN [candData EXCEPT ![q.cand] = FormData(regIn[r])]
    ELSE candData

\* the response carries the keys of serializer.errors
WithErrors(errors) == [NoForm EXCEPT !.errors = errors]

\* ------------------------------------------------ POST /api/candidates/register/
\* post: serializer = CandidateRegistrationSerializer(data=request.data).
\* Requests are served concurrently: nothing orders the validation of one
\* with the validation or the transaction of another.
Reg_Receive(r, form) ==
    /\ CanStart(r)
    /\ started' = started + 1
    /\ req' = [req EXCEPT ![r] = [IdleReq EXCEPT !.kind = "post"]]
    /\ regIn' = [regIn EXCEPT ![r] = form]
    /\ pc' = [pc EXCEPT ![r] = "rform"]
    /\ UNCHANGED <<candStatus, history, notifications, nextId, nSuccess, candData, fileVars, failVars, esVars, seedVars>>

\* post: serializer.is_valid() reaches the e-mail field, the first one that
\* reads the Candidate table: validate_email runs its query.  The view has
\* not opened a transaction yet, so the query sees what is committed now.
Reg_ValidateEmail(r) ==
    /\ pc[r] = "rform"
    /\ LET e == validate_email(regIn[r].email)
       IN  regIn' = [regIn EXCEPT ![r].email = e.value, ![r].errors = e.errors]
    /\ pc' = [pc EXCEPT ![r] = "rfields"]
    /\ UNCHANGED <<candStatus, history, notifications, nextId, nSuccess, started,
                   req, candData, fileVars, failVars, esVars, seedVars>>

\* post: serializer.is_valid() goes on with the phone number, whose query
\* sees what is committed by then, and the other fields; 400 with
\* serializer.errors when a check failed, otherwise the atomic block is
\* entered with validated_data
Reg_Validate(r) ==
    /\ pc[r] = "rfields"
    /\ LET res == is_valid(regIn[r])
       IN  IF res.errors = {}
           THEN /\ regIn' = [regIn EXCEPT ![r] = res.validated_data]
                /\ pc' = [pc EXCEPT ![r] = "rvalid"]
                /\ UNCHANGED req
           ELSE /\ regIn' = [regIn EXCEPT ![r] = WithErrors(res.errors)]
                /\ req' = [req EXCEPT ![r] = Finished(req[r], 400, "validation")]
                /\ pc' = [pc EXCEPT ![r] = "done"]
    /\ UNCHANGED <<candStatus, history, notifications, nextId, nSuccess, started,
                   candData, fileVars, failVars, esVars, seedVars>>

\* create: super().create(validated_data), that is Candidate.save():
\* full_clean() (the field validators, which pass for what the serializer
\* accepted, then clean and validate_unique on the committed rows) raises
\* without waiting for anyone; the INSERT waits while an open transaction
\* holds a row with the same e-mail or phone number
Reg_Create(r, fails) ==
    /\ pc[r] = "rvalid"
    /\ LET err == IF ~Candidate_clean(regIn[r].dob) THEN "clean_error"
                  ELSE IF ~UniqueOk(regIn[r]) THEN "unique_error"
                  ELSE IF fails THEN "save_error"
                  ELSE "none"
       IN  IF err # "none"
           THEN /\ ExitAtomic(r, req[r], TRUE, 500, err)
                /\ candData' = CandDataAfterExit(r, req[r], TRUE)
                /\ regIn' = [regIn EXCEPT ![r] = NoForm]
                /\ UNCHANGED nextId
           ELSE /\ ~InsertBlocked(r)
                /\ nextId <= MaxCand
                /\ req' = [req EXCEPT ![r].cand = nextId, ![r].tx_status = "SUBMITTED"]
                /\ nextId' = nextId + 1
                /\ pc' = [pc EXCEPT ![r] = "rcreated"]
                /\ UNCHANGED <<candStatus, history, notifications, regVars>>
    /\ UNCHANGED <<nSuccess, started, fileVars, failVars, esVars, seedVars>>

\* create: StatusHistory.objects.create(previous_status=None, ...)
Reg_CreateHistory(r, fails) ==
    /\ pc[r] = "rcreated"
    /\ IF fails
       THEN /\ ExitAtomic(r, req[r], TRUE, 500, "history_error")
            /\ candData' = CandDataAfterExit(r, req[r], TRUE)
            /\ regIn' = [regIn EXCEPT ![r] = NoForm]
       ELSE /\ req' = [req EXCEPT ![r].tx_hist = << InitialHistoryRow >>]
            /\ pc' = [pc EXCEPT ![r] = "rhistoried"]
            /\ UNCHANGED <<candStatus, history, notifications, regVars>>
    /\ UNCHANGED <<nextId, nSuccess, started, fileVars, failVars, esVars, seedVars>>

\* the atomic block exits, the view answers 201
Reg_Exit(r) ==
    /\ pc[r] = "rhistoried"
    /\ ExitAtomic(r, req[r], FALSE, 201, "none")
    /\ candData' = CandDataAfterExit(r, req[r], FALSE)
    /\ regIn' = [regIn EXCEPT ![r] = NoForm]
    /\ UNCHANGED <<nextId, nSuccess, started, fileVars, failVars, esVars, seedVars>>

RegNext ==
    \/ \E r \in Reqs, form \in Forms : Reg_Receive(r, form)
    \/ \E r \in Reqs : Reg_ValidateEmail(r)
    \/ \E r \in Reqs : Reg_Validate(r)
    \/ \E r \in Reqs, fails \in BOOLEAN : Reg_Create(r, fails)
    \/ \E r \in Reqs, fails \in BOOLEAN : Reg_CreateHistory(r, fails)
    \/ \E r \in Reqs : Reg_Exit(r)

SpecReg == Init /\ [][RegNext]_vars

RegTypeOK ==
    /\ \A r \in Reqs : regIn[r] \in Forms \cup {NoForm} \cup {WithErrors(e) : e \in SUBSET
            {"email", "phone_number", "years_of_experience", "date_of_birth", "other"}}
          \/ (regIn[r].email \in {EmailA, EmailB})
          \/ (pc[r] = "rfields" /\ regIn[r].errors \subseteq {"email"})
    /\ \A c \in Cands : candStatus[c] = NoCand <=> candData[c] = NoData
    /\ \A r \in Reqs : pc[r] \in {"idle", "rform", "rfields", "rvalid", "rcreated", "rhistoried", "done"}

\* ------------------------------------------------ registration properties
\* the tables registration writes to
RegTables == <<candStatus, history, notifications, candData>>

\* request r gets its response in this step
Answered(r) == pc[r] # "done" /\ pc'[r] = "done"

\* C11: registration never partially applies: a request refused by a field,
\* uniqueness, age, experience or file check, or whose creation fails
\* midway, leaves the candidates, the StatusHistory rows and the
\* notification log unchanged; they change only in the step that answers
\* 201, and then by exactly one candidate with its first row.
C11_RegistrationAllOrNothing ==
    [][ /\ \A r \in Reqs :
              (Answered(r) /\ req'[r].code # 201) => UNCHANGED RegTables
        /\ (RegTables' # RegTables)
              => \E r \in Reqs :
                    /\ pc[r] = "rhistoried" /\ Answered(r) /\ req'[r].code = 201
                    /\ candStatus[req[r].cand] = NoCand
                    /\ candStatus'[req[r].cand] = "SUBMITTED"
                    /\ Len(history'[req[r].cand]) = 1
                    /\ candData'[req[r].cand] = FormData(regIn[r])
                    /\ \A c \in Cands \ {req[r].cand} :
                          /\ candStatus'[c] = candStatus[c]
                          /\ history'[c] = history[c]
                          /\ candData'[c] = candData[c]
        /\ notifications' = notifications ]_vars

\* C11 witness: with one candidate stored, one registration was refused by
\* validation and another failed while its rows were being created, and
\* still only that candidate and its single row exist
C11_Witness ==
    /\ \E r \in Reqs : pc[r] = "done" /\ req[r].code = 400
                         /\ regIn[r].errors = {"years_of_experience"}
    /\ \E r \in Reqs : pc[r] = "done" /\ req[r].code = 500 /\ req[r].err = "history_error"
    /\ Cardinality({c \in Cands : candStatus[c] # NoCand}) = 1
    /\ \A c \in Cands : candStatus[c] = NoCand => history[c] = <<>> /\ candData[c] = NoData

\* every two distinct stored candidates differ in e-mail and in phone number
UniqueIdentity ==
    \A c1, c2 \in Cands :
        (c1 # c2 /\ candStatus[c1] # NoCand /\ candStatus[c2] # NoCand)
            => /\ candData[c1].email # candData[c2].email
               /\ candData[c1].phone # candData[c2].phone

\* C12: whatever registrations ran, concurrent ones with the same e-mail or
\* phone number included, two distinct registered candidates never share an
\* e-mail or a phone number; a registration whose e-mail or phone number a
\* stored candidate already has is answered with an error on that field.
C12_UniqueIdentity ==
    /\ []UniqueIdentity
    /\ [][ \A r \in Reqs :
              (Answered(r) /\ pc[r] \in {"rfields", "rvalid"})
                => /\ EmailExists(email_lower(regIn[r].email))
                        => req'[r].code = 400 /\ "email" \in regIn'[r].errors
                   /\ PhoneExists(regIn[r].phone)
                        => req'[r].code = 400 /\ "phone_number" \in regIn'[r].errors ]_vars

\* the form's e-mail passed its check when validate_email ran, no stored
\* candidate has the phone number, and the phone number, name, department
\* and file pass their own checks
OtherFieldsValid(f) ==
    /\ f.errors = {}
    /\ ~PhoneExists(f.phone)
    /\ Len(phone_digits(f.phone)) \in 7..15
    /\ f.rest

\* an applicant below 16 is never registered
C13_Under16Refused ==
    /\ [](\A c \in Cands : candStatus[c] # NoCand => AgeOn(Today, candData[c].dob) >= 16)
    /\ [][ \A r \in Reqs :
              (Answered(r) /\ req'[r].code = 201) => AgeOn(Today, regIn[r].dob) >= 16 ]_vars

\* an applicant of exactly 16 is not refused for the age when the record is saved
C13_Sixteen_Saved ==
    [][ \A r \in Reqs :
           (pc[r] = "rvalid" /\ Answered(r) /\ AgeOn(Today, regIn[r].dob) = 16)
              => req'[r].err # "clean_error" ]_vars

\* C13: the age gate of registration: a date of birth giving an age below
\* 16 is always rejected, and one giving an age of exactly 16 is accepted
\* when every other field and the file are valid and years_of_experience
\* is an allowed value, one in 0..50 that is not above age - 16.
C13_AgeGate ==
    /\ C13_Under16Refused
    /\ C13_Sixteen_Saved
    /\ [][ \A r \in Reqs :
              ( /\ pc[r] = "rfields" /\ pc'[r] # "rfields"
                /\ AgeOn(Today, regIn[r].dob) = 16
                /\ OtherFieldsValid(regIn[r])
                /\ regIn[r].years \in 0..50
                /\ regIn[r].years <= AgeOn(Today, regIn[r].dob) - 16 )
              => pc'[r] = "rvalid" ]_vars

\* C13 witness: a candidate of exactly 16 is stored, and a registration
\* was refused by the age check of Candidate.clean
C13_Witness ==
    /\ \E c \in Cands : candStatus[c] # NoCand /\ AgeOn(Today, candData[c].dob) = 16
    /\ \E r \in Reqs : pc[r] = "done" /\ req[r].code = 500 /\ req[r].err = "clean_error"

\* every stored candidate has 0 <= years_of_experience <= 50 and
\* years_of_experience <= age - 16, and so has every form answered 201
C14_AcceptedWithinBounds ==
    /\ [](\A c \in Cands :
            candStatus[c] # NoCand
              => /\ candData[c].years \in 0..50
                 /\ candData[c].years <= AgeOn(Today, candData[c].dob) - 16)
    /\ [][ \A r \in Reqs :
              (Answered(r) /\ req'[r].code = 201)
                => /\ regIn[r].years \in 0..50
                   /\ regIn[r].years <= AgeOn(Today, regIn[r].dob) - 16 ]_vars

\* request r is being answered 400 with an error on years_of_experience
C14_YearsError(r) ==
    /\ pc'[r] = "done" /\ req'[r].code = 400
    /\ "years_of_experience" \in regIn'[r].errors

\* C14: every accepted candidate has 0 <= years_of_experience <= 50 and
\* years_of_experience <= age - 16; a request violating either bound is
\* rejected with an error on years_of_experience.  The second half is
\* stated for the requests where nothing else is wrong: the other fields
\* pass and the date of birth gives an age in 0..120.
C14_ExperienceErrorAlways ==
    /\ C14_AcceptedWithinBounds
    /\ [][ \A r \in Reqs :
              ( /\ pc[r] = "rfields" /\ pc'[r] # "rfields"
                /\ OtherFieldsValid(regIn[r])
                /\ AgeOn(Today, regIn[r].dob) \in 0..120
                /\ \/ regIn[r].years \notin 0..50
                   \/ regIn[r].years > AgeOn(Today, regIn[r].dob) - 16 )
              => C14_YearsError(r) ]_vars

\* ------------------------------------------------ transition graph
\* C20: no transition graph is enforced: a transition request for an
\* existing candidate is accepted if and only if the requested status is
\* one of the five ApplicationStatus values and differs from the
\* candidate's current status, whatever that status is; a value outside
\* the enumeration is rejected with no state change.
C20_NoTransitionGraph ==
    [][\A r \in Reqs :
         ( /\ Begins(r)
           /\ req'[r].kind = "patch"
           /\ req'[r].cand \in Cands
           /\ candStatus[req'[r].cand] # NoCand )
         => /\ pc'[r] = "valid"
                <=> /\ req'[r].status \in {"SUBMITTED", "UNDER_REVIEW",
                                           "INTERVIEW_SCHEDULED", "REJECTED", "ACCEPTED"}
                    /\ req'[r].status # candStatus[req'[r].cand]
            /\ pc'[r] \in {"valid", "done"}
            /\ pc'[r] = "done" => req'[r].code = 400
            /\ req'[r].status \notin {"SUBMITTED", "UNDER_REVIEW",
                                      "INTERVIEW_SCHEDULED", "REJECTED", "ACCEPTED"}
                  => /\ pc'[r] = "done" /\ req'[r].err = "invalid_choice"
                     /\ UNCHANGED <<candStatus, history, notifications>>]_vars

\* C20 witness: a candidate went from SUBMITTED to ACCEPTED and from
\* ACCEPTED back to SUBMITTED, both transitions committed
C20_Witness ==
    \E c \in Cands :
        /\ candStatus[c] = "SUBMITTED"
        /\ Len(history[c]) = 3
        /\ history[c][2].previous_status = "SUBMITTED"
        /\ history[c][2].new_status = "ACCEPTED"
        /\ history[c][3].previous_status = "ACCEPTED"
        /\ history[c][3].new_status = "SUBMITTED"

\* ------------------------------------------------ the history ledger
\* a step of a request: of a registration, of an accepted or rejected
\* transition or of its notification attempt (the seeding command moves no
\* request)
RequestStep == pc' # pc

\* C21: StatusHistory is append-only: no step of a registration, of an
\* accepted or rejected transition or of a notification attempt changes or
\* removes a stored row; the rows a candidate had before the step are its
\* first rows afterwards, with the same values and in the same order.
\* This holds whatever rows the seeding command has stored or cleared.
C21_HistoryAppendOnly ==
    [][RequestStep =>
         \A c \in Cands :
            /\ Len(history'[c]) >= Len(history[c])
            /\ \A i \in 1..Len(history[c]) : history'[c][i] = history[c][i]]_vars

\* C21 witness: a seeded candidate whose seeded row and transition row are
\* still in place after a later transition request for it was refused
C21_Witness ==
    \E c \in Cands, r \in Reqs :
        /\ Len(history[c]) = 2
        /\ history[c][1] = SeedHistoryRow("ACCEPTED")
        /\ history[c][2].new_status = "UNDER_REVIEW"
        /\ pc[r] = "done" /\ req[r].kind = "patch" /\ req[r].cand = c
        /\ req[r].code = 400 /\ req[r].err = "already_in_status"

\* C22: every registered candidate has exactly one StatusHistory row with
\* previous_status null, and it is the oldest one; every row a transition
\* wrote has a previous_status that is one of the five ApplicationStatus
\* values.
C22_OneNullPrevious ==
    \A c \in Cands :
        /\ candStatus[c] = NoCand => history[c] = <<>>
        /\ candStatus[c] # NoCand =>
              /\ Len(history[c]) >= 1
              /\ history[c][1].previous_status = Null
              /\ \A i \in 2..Len(history[c]) :
                    history[c][i].previous_status \in
                        {"SUBMITTED", "UNDER_REVIEW", "INTERVIEW_SCHEDULED",
                         "REJECTED", "ACCEPTED"}

\* C22 witness: a candidate with its initial row and the rows of two
\* transitions, the second one leaving REJECTED
C22_Witness ==
    \E c \in Cands :
        /\ Len(history[c]) = 3
        /\ history[c][1].previous_status = Null
        /\ history[c][2].previous_status = "SUBMITTED"
        /\ history[c][3].previous_status = "REJECTED"

\* C23: a transition answered with success leaves the candidate in the
\* requested status and appends one history row whose previous_status is
\* the status the candidate had immediately before, whose new_status is
\* the requested status, whose comments are the supplied ones ("" when
\* none) and whose changed_by is the supplied actor ("admin" when none).
C23_SuccessfulTransition ==
    [][\A r \in Reqs :
         (pc[r] = "notified" /\ pc'[r] = "done" /\ req'[r].code = 200)
         => /\ candStatus'[req[r].cand] = req[r].status
            /\ Len(history'[req[r].cand]) = Len(history[req[r].cand]) + 1
            /\ Last(history'[req[r].cand]) =
                  [ previous_status |-> candStatus[req[r].cand],
                    new_status |-> req[r].status,
                    comments |-> IF req[r].comments = Absent THEN "" ELSE req[r].comments,
                    changed_by |-> IF req[r].changed_by = Absent THEN "admin"
                                   ELSE req[r].changed_by ]]_vars

\* ------------------------------------------------ the notification log
\* C26: every NotificationLog row the dispatcher writes has a success flag
\* equal to the dispatcher's return value, true exactly when the send
\* completed without raising; a row with success=false carries the message
\* of the exception.
C26_LogRowTellsOutcome ==
    [][\A r \in Reqs :
         (pc[r] = "historied" /\ pc'[r] = "notified")
         => \A i \in 1..Len(req'[r].tx_notif) :
               /\ req'[r].tx_notif[i].success <=> req'[r].ret = "true"
               /\ req'[r].tx_notif[i].success <=> req'[r].sent = "ok"
               /\ ~req'[r].tx_notif[i].success
                     => req'[r].tx_notif[i].error_message # ""]_vars

\* C26 witness: a send that raised left a row with success=false and the
\* message of the exception, and the dispatcher returned False; another
\* candidate has the success=true row of a send that went through
C26_Witness ==
    /\ \E r \in Reqs :
          /\ pc[r] = "notified" /\ req[r].ret = "false" /\ req[r].sent = "raised"
          /\ Len(req[r].tx_notif) = 1
          /\ ~req[r].tx_notif[1].success
          /\ req[r].tx_notif[1].error_message = "send failed"
    /\ \E c \in Cands :
          /\ Len(notifications[c]) = 1
          /\ notifications[c][1].success

\* C27: registration never sends a notification: every NotificationLog row
\* of a candidate refers to a StatusHistory row of that candidate whose
\* previous_status is not null, a candidate has no more NotificationLog
\* rows than transitions answered with success, and a candidate is created
\* without any.
C27_NotificationsOnlyForTransitions ==
    /\ [](\A c \in Cands :
            /\ Len(notifications[c]) <= nSuccess[c]
            /\ \A i \in 1..Len(notifications[c]) :
                  /\ notifications[c][i].status_change \in 2..Len(history[c])
                  /\ history[c][notifications[c][i].status_change].previous_status # Null)
    /\ [][\A c \in Cands :
            (candStatus[c] = NoCand /\ candStatus'[c] # NoCand)
                => notifications'[c] = <<>> /\ nSuccess'[c] = 0]_vars

\* C27 witness: a candidate with two transitions and a NotificationLog row
\* for each, while another candidate was registered and has none
C27_Witness ==
    \E c, c2 \in Cands :
        /\ c # c2
        /\ Len(history[c]) = 2 /\ Len(notifications[c]) = 1
        /\ notifications[c][1].status_change = 2
        /\ candStatus[c2] # NoCand /\ notifications[c2] = <<>>

\* ------------------------------------------------------ the admin gate
\* the tables a status update may write
Tables == <<candStatus, history, notifications>>

\* C24: a status-update request that does not carry the admin marker
\* (X-ADMIN equal to '1') is refused at once and its step leaves every
\* candidate's status, every history row and the notification log
\* unchanged; the status of an existing candidate changes only in the step
\* that ends the atomic block of a status update that carried the marker.
C24_AdminGate ==
    [][/\ \A r \in Reqs :
            (Begins(r) /\ req'[r].kind = "patch" /\ req'[r].admin_header # "1")
            => /\ pc'[r] = "done"
               /\ req'[r].code = 403
               /\ UNCHANGED Tables
       /\ \A c \in Cands :
            (candStatus[c] # NoCand /\ candStatus'[c] # candStatus[c])
            => \E r \in Reqs :
                  /\ req[r].kind = "patch" /\ req[r].cand = c
                  /\ req[r].admin_header = "1"
                  /\ pc[r] = "notified" /\ pc'[r] = "done"]_vars

\* C24 witness: a candidate went through an authorized transition, and a
\* status update for it that came with X-ADMIN: 0 was refused
C24_Witness ==
    \E c \in Cands, r \in Reqs :
        /\ Len(history[c]) = 2
        /\ candStatus[c] = "UNDER_REVIEW"
        /\ pc[r] = "done" /\ req[r].kind = "patch" /\ req[r].cand = c
        /\ req[r].admin_header = "0" /\ req[r].code = 403

\* ======================================================= failing operations
\* SpecFail: each view of the API runs into an exception somewhere inside
\* its try block.  Strings are sequences of words, so that "the response
\* contains the text of the exception" is a question about subsequences.

\* the operations of urlpatterns
Operations ==
    {"registration", "status_check", "status_history", "transition",
     "resume_download", "admin_detail", "admin_list"}

\* views whose handler has an "except Http404" clause before "except Exception"
CatchesHttp404 == Operations \ {"registration", "admin_list"}

\* str(e) of exceptions raised below the views
ExceptionTexts ==
    { <<"connection", "to", "db:5432", "refused">>,
      <<"relation", "job_application_candidate", "does", "not", "exist">>,
      <<"duplicate", "key", "candidate_email_key">>,
      <<"TransactionManagementError">>,
      <<"/srv/media/resumes/7.pdf", "Permission", "denied">>,
      <<"No", "Candidate", "matches", "the", "given", "query.">> }

\* where the exception reaches the view: Http404 from get_object_or_404, any
\* other exception in the handler's try block, or an exception while the
\* resume file is read
Failures ==
    [op : Operations, exc : {"Http404", "Exception"}, text : ExceptionTexts]
    \cup [op : {"resume_download"}, exc : {"file_error"}, text : ExceptionTexts]

\* 'message' of the 500 response of each view
FailureMessage(op) ==
    CASE op = "registration"    -> <<"Registration", "failed", "due", "to", "server", "error">>
      [] op = "status_check"    -> <<"Failed", "to", "retrieve", "status">>
      [] op = "status_history"  -> <<"Failed", "to", "retrieve", "status", "history">>
      [] op = "transition"      -> <<"Failed", "to", "update", "status">>
      [] op = "resume_download" -> <<"Failed", "to", "download", "resume">>
      [] op = "admin_detail"    -> <<"Failed", "to", "retrieve", "candidate", "details">>
      [] op = "admin_list"      -> <<"Failed", "to", "retrieve", "candidates">>

\* the text logger.error puts in front of str(e)
LogPrefix(op) ==
    CASE op = "registration"    -> <<"Registration", "error:">>
      [] op = "status_check"    -> <<"Status", "check", "error:">>
      [] op = "status_history"  -> <<"Status", "history", "error:">>
      [] op = "transition"      -> <<"Status", "update", "error:">>
      [] op = "resume_download" -> <<"Resume", "download", "error:">>
      [] op = "admin_detail"    -> <<"Admin", "detail", "error:">>
      [] op = "admin_list"      -> <<"Admin", "list", "error:">>

\* mutated: the response also carries 'error': str(e)
ServerError_with_detail(op, text) ==
    [ code |-> 500, message |-> FailureMessage(op), detail |-> text,
      log |-> LogPrefix(op) \o text ]

\* except Exception as e: logger.error(f"... error: {str(e)}"); the
\* response has 'success' and 'message' and nothing else
ServerError(op, text) ==
    [ code |-> 500, message |-> FailureMessage(op), detail |-> <<>>,
      log |-> LogPrefix(op) \o text ]

\* the except clauses of a view, in the order the handler lists them
handle_exception(f) ==
    IF f.exc = "file_error"
    THEN [ code |-> 500, message |-> <<"Error", "reading", "resume", "file">>,
           detail |-> <<>>,
           log |-> <<"Error", "reading", "resume", "file:">> \o f.text ]
    ELSE IF f.exc = "Http404" /\ f.op \in CatchesHttp404
    THEN [ code |-> 404, message |-> <<"Candidate", "not", "found">>,
           detail |-> <<>>, log |-> <<>> ]
    ELSE ServerError(f.op, f.text)

FailInit ==
    /\ WorkflowInit
    /\ RegInit
    /\ FileIdle
    /\ failure \in Failures
    /\ answer = NoAnswer
    /\ ESIdle

\* the view catches the exception and answers
Fail_Respond ==
    /\ answer = NoAnswer
    /\ answer' = handle_exception(failure)
    /\ UNCHANGED <<failure, candStatus, history, notifications, nextId, pc, req,
                   nSuccess, started, regVars, fileVars, esVars, seedVars>>

FailNext == Fail_Respond

SpecFail == FailInit /\ [][FailNext]_vars

\* t occurs in s as a run of consecutive words
Contains(s, t) ==
    \E i \in 1..(Len(s) - Len(t) + 1) : SubSeq(s, i, i + Len(t) - 1) = t

\* everything of the response the caller can read
ResponseText(a) == a.message \o a.detail

\* C25: an operation that ends in an unexpected or downstream failure
\* answers 500 with the fixed message of its view; the response does not
\* contain the text of the exception and is the same whatever that text is;
\* the text is in the server-side log line.
C25_NoExceptionTextInResponse ==
    (answer # NoAnswer)
    => /\ ~Contains(ResponseText(answer), failure.text)
       /\ \A t \in ExceptionTexts :
             LET other == handle_exception([failure EXCEPT !.text = t])
             IN  other.code = answer.code /\ ResponseText(other) = ResponseText(answer)
       /\ answer.code = 500
             => /\ answer.message \in
                      {FailureMessage(failure.op), <<"Error", "reading", "resume", "file">>}
                /\ Contains(answer.log, failure.text)

\* C25 witness: the status update failed with a database error and was
\* answered with "Failed to update status"
C25_Witness ==
    /\ failure.op = "transition"
    /\ failure.text = <<"connection", "to", "db:5432", "refused">>
    /\ answer.code = 500
    /\ answer.message = <<"Failed", "to", "update", "status">>
    /\ answer.log = <<"Status", "update", "error:", "connection", "to", "db:5432", "refused">>

\* ================================================= the Elasticsearch handler
\* SpecES: request threads call emit(), one thread calls flush() and
\* close(), and the flush timer runs _periodic_flush in a thread of its
\* own.  _lock is a threading.Lock: a thread that asks for it while holding
\* it waits for ever.

\* the constructor: the ping decides whether the handler is active, and an
\* active handler starts its first flush timer
ESInit ==
    /\ WorkflowInit
    /\ RegInit
    /\ FileIdle
    /\ FailIdle
    /\ HandlerFresh
    /\ es \in BOOLEAN
    /\ timers = [i \in 1..MaxTimers |-> IF es /\ i = 1 THEN "pending" ELSE "unused"]
    /\ timer_ref = IF es THEN 1 ELSE 0

\* nothing outside the handler moves
OnlyHandler ==
    UNCHANGED <<candStatus, history, notifications, nextId, pc, req, nSuccess,
                started, regVars, fileVars, failVars, seedVars>>

\* the elements of a sequence
Range(s) == {s[i] : i \in 1..Len(s)}

\* threading.Lock.acquire succeeds only when nobody holds the lock
LockAvailable(t) == lock_holder = NoThread

\* Timer.cancel(): a timer that has not fired yet never will
cancel(ts, i) ==
    IF i # 0 /\ ts[i] = "pending" THEN [ts EXCEPT ![i] = "cancelled"] ELSE ts

\* the timers that are waiting to fire
PendingTimers == {i \in 1..MaxTimers : timers[i] = "pending"}

\* the thread returns from flush() to its caller
Return(t) == [tpc EXCEPT ![t] = tlocal[t].ret]

\* emit: "if not self.es: return", else format the record and go for the lock
Emit_Call(t, urgent) ==
    /\ t \in Emitters
    /\ tpc[t] = "idle"
    /\ nextRec <= MaxRecords
    /\ nextRec' = nextRec + 1
    /\ IF ~es
       THEN UNCHANGED <<tpc, tlocal>>
       ELSE /\ tpc' = [tpc EXCEPT ![t] = "emit_lock"]
            /\ tlocal' = [tlocal EXCEPT ![t] = [rec |-> nextRec, urgent |-> urgent,
                                                ret |-> "idle"]]
    /\ UNCHANGED <<es, buffer, lock_holder, timers, timer_ref, attempted, dropped, closed>>
    /\ OnlyHandler

\* emit: with self._lock: self.buffer.append(...)
Emit_Append(t) ==
    /\ tpc[t] = "emit_lock"
    /\ LockAvailable(t)
    /\ lock_holder' = t
    /\ buffer' = Append(buffer, tlocal[t].rec)
    /\ tpc' = [tpc EXCEPT ![t] = "emit_check"]
    /\ UNCHANGED <<es, timers, timer_ref, tlocal, attempted, dropped, closed, nextRec>>
    /\ OnlyHandler

\* emit: should_flush = ...; the with block ends; "if should_flush: self.flush()"
Emit_Check(t) ==
    /\ tpc[t] = "emit_check"
    /\ lock_holder' = NoThread
    /\ LET should_flush == tlocal[t].urgent \/ Len(buffer) >= buffer_size
       IN  tpc' = [tpc EXCEPT ![t] = IF should_flush THEN "flush_test" ELSE "idle"]
    /\ UNCHANGED <<es, buffer, timers, timer_ref, tlocal, attempted, dropped, closed, nextRec>>
    /\ OnlyHandler

\* a thread calls flush() on the handler
Flush_Call(t) ==
    /\ t = CloserThread
    /\ tpc[t] = "idle"
    /\ es
    /\ buffer # <<>>
    /\ tpc' = [tpc EXCEPT ![t] = "flush_test"]
    /\ tlocal' = [tlocal EXCEPT ![t] = [NoLocals EXCEPT !.ret = "idle"]]
    /\ UNCHANGED <<es, buffer, lock_holder, timers, timer_ref, attempted, dropped,
                   closed, nextRec>>
    /\ OnlyHandler

\* flush: "if not self.es or not self.buffer: return"
Flush_Test(t) ==
    /\ tpc[t] = "flush_test"
    /\ tpc' = IF ~es \/ buffer = <<>> THEN Return(t)
              ELSE [tpc EXCEPT ![t] = "flush_lock"]
    /\ UNCHANGED <<es, buffer, lock_holder, timers, timer_ref, tlocal, attempted,
                   dropped, closed, nextRec>>
    /\ OnlyHandler

\* flush: "with self._lock:" takes the lock; helpers.bulk runs while it is held
Flush_Acquire(t) ==
    /\ tpc[t] = "flush_lock"
    /\ LockAvailable(t)
    /\ lock_holder' = t
    /\ tpc' = [tpc EXCEPT ![t] = "flush_bulk"]
    /\ UNCHANGED <<es, buffer, timers, timer_ref, tlocal, attempted, dropped, closed,
                   nextRec>>
    /\ OnlyHandler

\* flush: helpers.bulk(self.es, self.buffer); self.buffer = [], and the with
\* block ends.  When bulk raises, the with block releases the lock and the
\* except clause is next.
Flush_Bulk(t, raises) ==
    /\ tpc[t] = "flush_bulk"
    /\ attempted' = attempted \cup Range(buffer)
    /\ lock_holder' = NoThread
    /\ IF raises
       THEN /\ tpc' = [tpc EXCEPT ![t] = "flush_except"]
            /\ UNCHANGED buffer
       ELSE /\ tpc' = Return(t)
            /\ buffer' = <<>>
    /\ UNCHANGED <<es, timers, timer_ref, tlocal, dropped, closed, nextRec>>
    /\ OnlyHandler

\* flush: except Exception: print(...); self.buffer = []
Flush_Except(t) ==
    /\ tpc[t] = "flush_except"
    /\ buffer' = <<>>
    /\ dropped' = dropped \cup (Range(buffer) \ attempted)
    /\ tpc' = Return(t)
    /\ UNCHANGED <<es, lock_holder, timers, timer_ref, tlocal, attempted, closed, nextRec>>
    /\ OnlyHandler

\* the interval of a pending timer is over: its thread calls _periodic_flush
Timer_Fire(i) ==
    /\ timers[i] = "pending"
    /\ tpc[TimerThread] = "idle"
    /\ \E j \in 1..MaxTimers : timers[j] = "unused"
    /\ timers' = [timers EXCEPT ![i] = "fired"]
    /\ tpc' = [tpc EXCEPT ![TimerThread] = "periodic_lock"]
    /\ UNCHANGED <<es, buffer, lock_holder, timer_ref, tlocal, attempted, dropped,
                   closed, nextRec>>
    /\ OnlyHandler

\* _periodic_flush: with self._lock: if self.buffer: self.flush()
Periodic_Acquire ==
    /\ tpc[TimerThread] = "periodic_lock"
    /\ LockAvailable(TimerThread)
    /\ lock_holder' = TimerThread
    /\ tlocal' = [tlocal EXCEPT ![TimerThread] = [NoLocals EXCEPT !.ret = "periodic_release"]]
    /\ tpc' = [tpc EXCEPT ![TimerThread] =
                  IF buffer # <<>> THEN "flush_test" ELSE "periodic_release"]
    /\ UNCHANGED <<es, buffer, timers, timer_ref, attempted, dropped, closed, nextRec>>
    /\ OnlyHandler

\* _periodic_flush: the with block ends
Periodic_Release ==
    /\ tpc[TimerThread] = "periodic_release"
    /\ lock_holder' = NoThread
    /\ tpc' = [tpc EXCEPT ![TimerThread] = "periodic_restart"]
    /\ UNCHANGED <<es, buffer, timers, timer_ref, tlocal, attempted, dropped, closed,
                   nextRec>>
    /\ OnlyHandler

\* _periodic_flush: "if self.es: self._start_flush_timer()", which cancels
\* the timer self._timer refers to and starts a new one
Periodic_Restart ==
    /\ tpc[TimerThread] = "periodic_restart"
    /\ tpc' = [tpc EXCEPT ![TimerThread] = "idle"]
    /\ IF es
       THEN LET new == CHOOSE j \in 1..MaxTimers :
                          timers[j] = "unused" /\ \A k \in 1..(j - 1) : timers[k] # "unused"
            IN  /\ timers' = [cancel(timers, timer_ref) EXCEPT ![new] = "pending"]
                /\ timer_ref' = new
       ELSE UNCHANGED <<timers, timer_ref>>
    /\ UNCHANGED <<es, buffer, lock_holder, tlocal, attempted, dropped, closed, nextRec>>
    /\ OnlyHandler

\* close: "if self._timer: self._timer.cancel()", then self.flush()
Close_Call ==
    /\ tpc[CloserThread] = "idle"
    /\ ~closed
    /\ timers' = cancel(timers, timer_ref)
    /\ tpc' = [tpc EXCEPT ![CloserThread] = "flush_test"]
    /\ tlocal' = [tlocal EXCEPT ![CloserThread] = [NoLocals EXCEPT !.ret = "close_super"]]
    /\ UNCHANGED <<es, buffer, lock_holder, timer_ref, attempted, dropped, closed, nextRec>>
    /\ OnlyHandler

\* close: super().close(), and close() returns
Close_Return ==
    /\ tpc[CloserThread] = "close_super"
    /\ closed' = TRUE
    /\ tpc' = [tpc EXCEPT ![CloserThread] = "idle"]
    /\ UNCHANGED <<es, buffer, lock_holder, timers, timer_ref, tlocal, attempted,
                   dropped, nextRec>>
    /\ OnlyHandler

\* the steps of one thread
ThreadStep(t) ==
    \/ \E u \in BOOLEAN : Emit_Call(t, u)
    \/ Emit_Append(t)
    \/ Emit_Check(t)
    \/ Flush_Call(t)
    \/ Flush_Test(t)
    \/ Flush_Acquire(t)
    \/ \E raises \in BOOLEAN : Flush_Bulk(t, raises)
    \/ Flush_Except(t)
    \/ (t = TimerThread /\ (Periodic_Acquire \/ Periodic_Release \/ Periodic_Restart))
    \/ (t = CloserThread /\ (Close_Call \/ Close_Return))

ESNext ==
    \/ \E t \in Emitters, u \in BOOLEAN : Emit_Call(t, u)
    \/ \E t \in Threads : Emit_Append(t)
    \/ \E t \in Threads : Emit_Check(t)
    \/ \E t \in Threads : Flush_Call(t)
    \/ \E t \in Threads : Flush_Test(t)
    \/ \E t \in Threads : Flush_Acquire(t)
    \/ \E t \in Threads, raises \in BOOLEAN : Flush_Bulk(t, raises)
    \/ \E t \in Threads : Flush_Except(t)
    \/ \E i \in 1..MaxTimers : Timer_Fire(i)
    \/ Periodic_Acquire
    \/ Periodic_Release
    \/ Periodic_Restart
    \/ Close_Call
    \/ Close_Return

SpecES == ESInit /\ [][ESNext]_vars

\* The scheduler lets every thread that can take a step take one, and a
\* timer whose interval is over fires.
SpecESFair ==
    /\ ESInit
    /\ [][ESNext]_vars
    /\ \A t \in Threads : WF_vars(ThreadStep(t))
    /\ WF_vars(\E i \in 1..MaxTimers : Timer_Fire(i))

ESTypeOK ==
    /\ es \in BOOLEAN
    /\ lock_holder \in Threads \cup {NoThread}
    /\ timer_ref \in 0..MaxTimers
    /\ Range(buffer) \subseteq 1..MaxRecords
    /\ nextRec \in 1..(MaxRecords + 1)
    /\ closed \in BOOLEAN

\* ---------------------------------------------------- handler properties
\* C28: with the handler active, every emit(), flush() and periodic-flush
\* call eventually returns, and a lock that is held is eventually released,
\* also when the timer fires while the buffer is non-empty and when the
\* bulk send fails.
C28_CallsReturn ==
    /\ \A t \in Threads : (es /\ tpc[t] # "idle") ~> (tpc[t] = "idle")
    /\ (lock_holder # NoThread) ~> (lock_holder = NoThread)

\* C29: with the handler active, a record that emit() appended to the buffer
\* is part of at least one bulk-send attempt before it is removed from the
\* buffer: no record is dropped without a send attempt.
C29_NoRecordDroppedUnsent ==
    /\ dropped = {}
    /\ \A k \in 1..(nextRec - 1) :
          (es /\ \A t \in Emitters : tpc[t] = "emit_lock" => tlocal[t].rec # k)
          => k \in Range(buffer) \cup attempted

\* C30: at most one flush timer is pending at any time, and once close()
\* has returned no flush timer is pending, so that no periodic flush starts
\* after it.
C30_TimerStopsAtClose ==
    /\ Cardinality(PendingTimers) <= 1
    /\ closed => PendingTimers = {}

====
